---- MODULE Spec2Model ----
(***************************************************************************)
(* Connection and broadcast engine of the real-time bus tracking relay     *)
(* (src/server.js, version 10.0.1, lines 249-1924).                        *)
(*                                                                         *)
(* Every Socket.IO event handler, the disconnect/error listeners and the   *)
(* periodic timers are one action each.  Handlers run to completion on the *)
(* single Node.js thread, so an action is atomic.  The handlers are        *)
(* written as operators over a record S holding all tables, because        *)
(* disconnectOldSocket closes the incumbent in the middle of a handler and *)
(* Socket.IO runs the incumbent's "disconnect" listener (cleanup)          *)
(* synchronously inside socket.disconnect(true); SpecOrder adds the order  *)
(* in which the listener runs once the handler has returned.               *)
(*                                                                         *)
(* Not modelled: the string-only fields destinationName, organizationName  *)
(* (copied into payloads, never tested), the session record's createdAt /  *)
(* lastActivity and the user's connectedAt (written, never read).          *)
(***************************************************************************)
EXTENDS Integers, Sequences, FiniteSets, TLC

\* ------------------------------------------------------------ bounds
MaxSockets == 2       \* connections accepted over the run (ids are never reused)
MaxAccts   == 2       \* distinct account ids clients use
MaxKeys    == 3       \* session keys minted (successful registerRole calls)
MaxSweeps  == 6       \* firings of the 60 s cleanup timer

\* ------------------------------------------------------------ program constants (ms)
STALE_DRIVER_TIMEOUT            == 300000
DISCONNECT_GRACE_PERIOD         == 30000
LOCATION_CHANGE_THRESHOLD       == 100      \* 0.0001 degree, in micro-degrees
LOCATION_UPDATE_INTERVAL        == 15000
MAX_LOCATION_UPDATES_PER_MINUTE == 10
CLEANUP_INTERVAL                == 60000
STALE_USER_TIMEOUT              == 300000
RATE_WINDOW                     == 60000
MAX_BOARDING_PASSENGERS         == 20
MAX_SNAPSHOT_DRIVERS            == 50

\* ------------------------------------------------------------ values
NoSock  == 0                    \* null / undefined socket id or session key (falsy)
NoAcct  == 0                    \* undefined or empty account id (falsy)
Undef   == 0 - 1000000000       \* undefined / null number or timestamp
Null    == 0 - 999999999        \* null, where the code tells it from undefined
Unknown == MaxAccts + 2         \* the literal key "unknown"
StartTime == CLEANUP_INTERVAL   \* Date.now() at server start: any positive instant

Sock == 1..MaxSockets
Acct == 1..MaxAccts

VARIABLES
  drivers,               \* accountId -> driver record
  users,                 \* accountId -> user record
  socketToAccountId,
  accountIdToSocketId,
  sessionKeyToSocketId,
  socketIdToSessionKey,
  sessions,              \* sessionKey -> [accountId, role]
  rateLimitMap,          \* socketId -> [count, resetTime]
  pendingStateRestore,   \* set of accountIds
  conn,                  \* socket -> "new" | "open" | "closing" | "closed"
  role,                  \* socket.role: "none" | "user" | "driver"
  rooms,                 \* socket -> rooms joined
  now,                   \* Date.now()
  nextCleanup,           \* instant at which the 60 s timers fire next
  nextKey,               \* session keys minted so far + 1
  out,                   \* messages emitted by the last step, in order
  accepted               \* history: the client event the last step carried out,
                         \* <<event, socket, account>>, or None

vars == <<drivers, users, socketToAccountId, accountIdToSocketId,
          sessionKeyToSocketId, socketIdToSessionKey, sessions, rateLimitMap,
          pendingStateRestore, conn, role, rooms, now, nextCleanup, nextKey, out,
          accepted>>

\* ------------------------------------------------------------ JS objects as functions
Get(f, k) == IF k \in DOMAIN f THEN f[k] ELSE NoSock
Del(f, k) == [x \in DOMAIN f \ {k} |-> f[x]]
Put(f, k, v) == [x \in DOMAIN f \cup {k} |-> IF x = k THEN v ELSE f[x]]
Empty == [x \in {} |-> 0]
None == <<>>

RECURSIVE Ascending(_)
Ascending(s) ==
  IF s = {} THEN <<>>
  ELSE LET m == CHOOSE x \in s : \A y \in s : x <= y
       IN <<m>> \o Ascending(s \ {m})

\* a ?? b
Nullish(a, b) == IF a \in {Undef, Null} THEN b ELSE a

\* The whole server state as one record.
State ==
  [drivers |-> drivers, users |-> users, s2a |-> socketToAccountId,
   a2s |-> accountIdToSocketId, k2s |-> sessionKeyToSocketId,
   s2k |-> socketIdToSessionKey, sessions |-> sessions, rate |-> rateLimitMap,
   pending |-> pendingStateRestore, conn |-> conn, role |-> role,
   rooms |-> rooms, now |-> now, nextKey |-> nextKey, out |-> <<>>,
   accepted |-> None]

Commit(S) ==
  /\ drivers' = S.drivers
  /\ users' = S.users
  /\ socketToAccountId' = S.s2a
  /\ accountIdToSocketId' = S.a2s
  /\ sessionKeyToSocketId' = S.k2s
  /\ socketIdToSessionKey' = S.s2k
  /\ sessions' = S.sessions
  /\ rateLimitMap' = S.rate
  /\ pendingStateRestore' = S.pending
  /\ conn' = S.conn
  /\ role' = S.role
  /\ rooms' = S.rooms
  /\ nextKey' = S.nextKey
  /\ out' = S.out
  /\ accepted' = S.accepted

\* ------------------------------------------------------------ messages
\* body is the payload of a reply that lists drivers, NoBody otherwise
NoBody == <<>>

Msg(ev, to, acct, pc, mc, lat, lng) ==
  [ev |-> ev, to |-> to, acct |-> acct, pc |-> pc, mc |-> mc, lat |-> lat, lng |-> lng,
   body |-> NoBody]

\* socket.emit(ev, payload): to is the set of sockets the message is sent to
Emit(S, ev, to, acct, pc, mc, lat, lng) ==
  [S EXCEPT !.out = Append(@, Msg(ev, {to}, acct, pc, mc, lat, lng))]

\* socket.emit(ev, body) of a reply that lists drivers
EmitList(S, ev, to, body) ==
  [S EXCEPT !.out = Append(@, [Msg(ev, {to}, NoAcct, Undef, Undef, Undef, Undef)
                                 EXCEPT !.body = body])]

\* EmitError that reports the error on every connection
EmitError_ToAll(S, to) ==
  [S EXCEPT !.out = Append(@, Msg("error", Sock, NoAcct, Undef, Undef, Undef, Undef))]

EmitError(S, to) == Emit(S, "error", to, NoAcct, Undef, Undef, Undef, Undef)

\* io.sockets.sockets.get(id) exists and .connected
Connected(S, s) == s \in Sock /\ S.conn[s] \in {"open", "closing"}

\* io.to("user").emit(ev, payload): every connected socket that joined room "user"
UserRoom(S) == {s \in Sock : Connected(S, s) /\ "user" \in S.rooms[s]}

BroadcastToUsers(S, ev, acct, pc, mc, lat, lng) ==
  [S EXCEPT !.out = Append(@, Msg(ev, UserRoom(S), acct, pc, mc, lat, lng))]

\* ------------------------------------------------------------ records
NewDriver ==
  [socketId |-> NoSock, disconnected |-> FALSE, disconnectedAt |-> Undef,
   reconnectAttempts |-> 0, lastUpdated |-> Undef,
   lat |-> Undef, lng |-> Undef, lastLat |-> Undef, lastLng |-> Undef,
   lastBroadcastTime |-> Undef, passengerCount |-> Undef, maxCapacity |-> Undef,
   geometry |-> Undef, destinationLat |-> Undef, destinationLng |-> Undef,
   waitingPassengers |-> Empty]

NewUser(s, t) ==
  [socketId |-> s, lastActivity |-> t, disconnected |-> FALSE,
   disconnectedAt |-> Undef, lat |-> Undef, lng |-> Undef]

\* ------------------------------------------------------------ snapshots
\* !x for a number: undefined, null and 0 are falsy
Falsy(x) == x \in {Undef, Null, 0}

\* Object.values(drivers).filter(driver => driver.accountId && (driver.lat ||
\* driver.geometry)); every record carries the account id it is stored under
snapshotFilter(S) ==
  {a \in DOMAIN S.drivers : ~Falsy(S.drivers[a].lat) \/ ~Falsy(S.drivers[a].geometry)}

\* the entry of a driver in driversSnapshot and currentData (lastUpdated is
\* removed before the reply is sent)
snapshotEntry(S, a) ==
  [accountId |-> a, lat |-> S.drivers[a].lat, lng |-> S.drivers[a].lng,
   geometry |-> S.drivers[a].geometry,
   destinationLat |-> S.drivers[a].destinationLat,
   destinationLng |-> S.drivers[a].destinationLng,
   passengerCount |-> Nullish(S.drivers[a].passengerCount, 0),
   maxCapacity |-> Nullish(S.drivers[a].maxCapacity, 0),
   isOnline |-> ~S.drivers[a].disconnected]

\* new Date(lastUpdated || 0)
recency(S, a) ==
  IF Falsy(S.drivers[a].lastUpdated) THEN 0 ELSE S.drivers[a].lastUpdated

\* Array.prototype.sort with (a, b) => recency(b) - recency(a): stable
RECURSIVE insertByRecency(_, _, _)
insertByRecency(S, sorted, a) ==
  IF sorted = <<>> THEN <<a>>
  ELSE IF recency(S, Head(sorted)) >= recency(S, a)
  THEN <<Head(sorted)>> \o insertByRecency(S, Tail(sorted), a)
  ELSE <<a>> \o sorted

RECURSIVE sortByRecency(_, _, _)
sortByRecency(S, as, sorted) ==
  IF as = <<>> THEN sorted
  ELSE sortByRecency(S, Tail(as), insertByRecency(S, sorted, Head(as)))

\* .slice(0, n)
slice(seq, n) == IF Len(seq) > n THEN SubSeq(seq, 1, n) ELSE seq

\* the accounts listed, of the accounts q that pass the filter: all of them,
\* in the order of the table (ascending ids stand for insertion order), or
\* the most recently updated MAX_SNAPSHOT_DRIVERS of them
driversArray(S, q) ==
  IF MAX_SNAPSHOT_DRIVERS > 0 /\ Cardinality(q) > MAX_SNAPSHOT_DRIVERS
  THEN slice(sortByRecency(S, Ascending(q), <<>>), MAX_SNAPSHOT_DRIVERS)
  ELSE Ascending(q)

entriesOf(S, as) == [i \in 1..Len(as) |-> snapshotEntry(S, as[i])]

\* { drivers, count, total, limited } for the listed accounts as of q
snapshotBody(S, q, as) ==
  [drivers |-> entriesOf(S, as),
   count |-> Len(as),
   total |-> Cardinality(q),
   limited |-> MAX_SNAPSHOT_DRIVERS > 0 /\ Cardinality(q) > MAX_SNAPSHOT_DRIVERS]

\* the payload of driversSnapshot
driversSnapshot(S) ==
  snapshotBody(S, snapshotFilter(S), driversArray(S, snapshotFilter(S)))

\* the payload of currentData: { buses } without a limit
currentData(S) == [buses |-> entriesOf(S, Ascending(snapshotFilter(S)))]

\* the entry of a driver in driversData
driversDataEntry(S, a) ==
  [accountId |-> a, lat |-> S.drivers[a].lat, lng |-> S.drivers[a].lng,
   destinationLat |-> S.drivers[a].destinationLat,
   destinationLng |-> S.drivers[a].destinationLng,
   passengerCount |-> Nullish(S.drivers[a].passengerCount, 0),
   maxCapacity |-> Nullish(S.drivers[a].maxCapacity, 0)]

\* Object.entries(drivers).filter(([_, data]) => data.lat && data.lng)
driversDataFilter(S) ==
  {a \in DOMAIN S.drivers : ~Falsy(S.drivers[a].lat) /\ ~Falsy(S.drivers[a].lng)}

\* the payload of driversData: { drivers } without count, total or limit
driversDataOf(S, as) == [drivers |-> [i \in 1..Len(as) |-> driversDataEntry(S, as[i])]]

driversData(S) == driversDataOf(S, Ascending(driversDataFilter(S)))

\* ------------------------------------------------------------ cleanup (disconnect / error listener)
\* The driver d is sent pingRemoved when it is online.
notifyPingRemoved(S, d, accountId) ==
  IF /\ Get(S.a2s, d) # NoSock
     /\ Connected(S, Get(S.a2s, d))
     /\ ~S.drivers[d].disconnected
  THEN Emit(S, "pingRemoved", Get(S.a2s, d), accountId, Undef, Undef, Undef, Undef)
  ELSE S

\* The user's entry is deleted from every driver's waitingPassengers and each
\* such driver that is online is sent pingRemoved.
RECURSIVE DropWaiting(_, _, _)
DropWaiting(S, ds, accountId) ==
  IF ds = <<>> THEN S
  ELSE IF accountId \in DOMAIN S.drivers[Head(ds)].waitingPassengers
  THEN DropWaiting(
         notifyPingRemoved(
           [S EXCEPT !.drivers[Head(ds)].waitingPassengers = Del(@, accountId)],
           Head(ds), accountId),
         Tail(ds), accountId)
  ELSE DropWaiting(S, Tail(ds), accountId)

\* cleanup that marks the record whichever connection it is bound to
markDriverDisconnected_AnySocket(S, s, accountId) ==
  IF accountId # NoAcct /\ accountId \in DOMAIN S.drivers
  THEN [S EXCEPT !.drivers[accountId].disconnected = TRUE,
                 !.drivers[accountId].disconnectedAt = S.now,
                 !.drivers[accountId].socketId = NoSock]
  ELSE S

\* if (drivers[accountId] && drivers[accountId].socketId === socket.id)
markDriverDisconnected(S, s, accountId) ==
  IF /\ accountId # NoAcct
     /\ accountId \in DOMAIN S.drivers
     /\ S.drivers[accountId].socketId = s
  THEN [S EXCEPT !.drivers[accountId].disconnected = TRUE,
                 !.drivers[accountId].disconnectedAt = S.now,
                 !.drivers[accountId].socketId = NoSock]
  ELSE S

\* if (users[accountId] && users[accountId].socketId === socket.id)
markUserDisconnected(S, s, accountId) ==
  IF /\ accountId # NoAcct
     /\ accountId \in DOMAIN S.users
     /\ S.users[accountId].socketId = s
  THEN DropWaiting(
         [S EXCEPT !.users[accountId].disconnected = TRUE,
                   !.users[accountId].disconnectedAt = S.now,
                   !.users[accountId].socketId = NoSock],
         Ascending(DOMAIN S.drivers), accountId)
  ELSE S

\* if (accountIdToSocketId[accountId] === socket.id) delete ...
dropAccountIndex(S, s, accountId) ==
  IF accountId # NoAcct /\ Get(S.a2s, accountId) = s
  THEN [S EXCEPT !.a2s = Del(@, accountId)]
  ELSE S

\* if (sessionKey) { ... delete sessions[sessionKey] }
dropSession(S, s, sessionKey) ==
  IF sessionKey # NoSock
  THEN [S EXCEPT !.k2s = IF Get(@, sessionKey) = s THEN Del(@, sessionKey) ELSE @,
                 !.sessions = Del(@, sessionKey)]
  ELSE S

dropSocketTables(S, s) ==
  [S EXCEPT !.s2k = Del(@, s), !.s2a = Del(@, s), !.rate = Del(@, s)]

\* cleanup with the account id and session key it read on entry
cleanupOf(S, s, accountId, sessionKey) ==
  dropSocketTables(
    dropSession(
      dropAccountIndex(
        markUserDisconnected(markDriverDisconnected(S, s, accountId), s, accountId),
        s, accountId),
      s, sessionKey),
    s)

cleanup(S, s) == cleanupOf(S, s, Get(S.s2a, s), Get(S.s2k, s))

\* OnDisconnect with a listener that leaves every table as it is
OnDisconnect_KeepingTables(S, s) ==
  [S EXCEPT !.conn[s] = "closed", !.rooms[s] = {}, !.role[s] = "none"]

\* The transport of s is gone: Socket.IO leaves the rooms, drops the socket
\* from io.sockets.sockets, sets connected = false and then runs the
\* "disconnect" listener.
OnDisconnect(S, s) ==
  cleanup([S EXCEPT !.conn[s] = "closed", !.rooms[s] = {}, !.role[s] = "none"], s)

\* ------------------------------------------------------------ disconnectOldSocket
\* the session tables of the closed socket, read after its listener ran
dropOldSession(S, oldSocketId) ==
  IF Get(S.s2k, oldSocketId) # NoSock
  THEN [S EXCEPT !.k2s = Del(@, Get(S.s2k, oldSocketId)),
                 !.s2k = Del(@, oldSocketId),
                 !.sessions = Del(@, Get(S.s2k, oldSocketId))]
  ELSE S

\* disconnectOldSocket without the test of oldSocket.connected
disconnectOldSocket_Unchecked(S, oldSocketId) ==
  IF oldSocketId = NoSock THEN S
  ELSE dropOldSession(
         OnDisconnect(
           Emit(S, "connectionReplaced", oldSocketId, NoAcct, Undef, Undef, Undef, Undef),
           oldSocketId),
         oldSocketId)

disconnectOldSocket(S, oldSocketId) ==
  IF oldSocketId = NoSock \/ ~Connected(S, oldSocketId) THEN S
  ELSE dropOldSession(
         OnDisconnect(
           Emit(S, "connectionReplaced", oldSocketId, NoAcct, Undef, Undef, Undef, Undef),
           oldSocketId),
         oldSocketId)

\* ------------------------------------------------------------ registerRole
\* accountIdToSocketId[accountId] = socket.id; socketToAccountId[socket.id] = accountId
bindAccount(S, s, accountId) ==
  [S EXCEPT !.a2s = Put(@, accountId, s), !.s2a = Put(@, s, accountId)]

\* if (accountId) { close the incumbent connection of the account; bind }
takeOverAccount(S, s, accountId) ==
  IF accountId = NoAcct THEN S
  ELSE bindAccount(
         IF Get(S.a2s, accountId) # NoSock /\ Get(S.a2s, accountId) # s
         THEN disconnectOldSocket(S, Get(S.a2s, accountId)) ELSE S,
         s, accountId)

\* A freshly generated key is bound to no socket: no collision.
assignSession(S, s, r, accountId) ==
  Emit([S EXCEPT !.sessions = Put(@, S.nextKey, [accountId |-> accountId, role |-> r]),
                 !.k2s = Put(@, S.nextKey, s),
                 !.s2k = Put(@, s, S.nextKey),
                 !.nextKey = @ + 1,
                 !.role[s] = r,
                 !.rooms[s] = @ \cup {r},
                 !.rate = Del(@, s),
                 !.accepted = <<"registerRole", s, accountId>>],
       "sessionAssigned", s, S.nextKey, Undef, Undef, Undef, Undef)

\* a registration that counted as a driver message: it refreshes lastUpdated
restoreDriver_Refreshing(S, s, r, accountId) ==
  IF r = "driver" /\ accountId # NoAcct /\ accountId \in DOMAIN S.drivers
  THEN [S EXCEPT !.drivers[accountId].socketId = s,
                 !.drivers[accountId].disconnected = FALSE,
                 !.drivers[accountId].disconnectedAt = Undef,
                 !.drivers[accountId].lastUpdated = S.now,
                 !.pending = @ \cup {accountId}]
  ELSE S

\* if (role === "driver" && accountId && drivers[accountId]) { ... }
restoreDriver(S, s, r, accountId) ==
  IF r = "driver" /\ accountId # NoAcct /\ accountId \in DOMAIN S.drivers
  THEN [S EXCEPT !.drivers[accountId].socketId = s,
                 !.drivers[accountId].disconnected = FALSE,
                 !.drivers[accountId].disconnectedAt = Undef,
                 !.pending = @ \cup {accountId}]
  ELSE S

\* if (role === "user") { users[accountId] = {...}; snapshot; currentData }
admitUser(S, s, r, accountId) ==
  IF r = "user"
  THEN EmitList(EmitList([S EXCEPT !.users = Put(@, accountId, NewUser(s, S.now))],
                         "driversSnapshot", s, driversSnapshot(S)),
                "currentData", s, currentData(S))
  ELSE S

\* r is the role after normalisation ("bogus" stands for every other value),
\* accountId is NoAcct for the bare-string form or a missing account id.
registerRole(S, s, r, accountId) ==
  IF r \notin {"user", "driver"} THEN S
  ELSE IF r = "user" /\ accountId = NoAcct THEN EmitError(S, s)
  ELSE admitUser(
         restoreDriver(
           assignSession(takeOverAccount(S, s, accountId), s, r, accountId),
           s, r, accountId),
         s, r, accountId)

\* ------------------------------------------------------------ resumeSession
\* the connection that holds the key is closed
closeKeyHolder(S, s, sessionKey) ==
  IF Get(S.k2s, sessionKey) # NoSock /\ Get(S.k2s, sessionKey) # s
  THEN disconnectOldSocket(S, Get(S.k2s, sessionKey)) ELSE S

\* sessions[sessionKey] = existingSession re-creates the record
rebindSession(S, s, sessionKey, existingSession) ==
  [S EXCEPT !.k2s = Put(@, sessionKey, s),
            !.s2k = Put(@, s, sessionKey),
            !.sessions = Put(@, sessionKey, existingSession),
            !.accepted = <<"resumeSession", s, existingSession.accountId>>]

joinRole(S, s, r) ==
  [S EXCEPT !.role[s] = r, !.rooms[s] = @ \cup {r}]

\* if (role === "user") { refresh users[accountId]; snapshot }
readmitUser(S, s, r, a) ==
  IF r = "user"
  THEN EmitList(IF a # NoAcct /\ a \in DOMAIN S.users
                THEN [S EXCEPT !.users[a].lastActivity = S.now,
                               !.users[a].socketId = s,
                               !.users[a].disconnected = FALSE,
                               !.users[a].disconnectedAt = Undef]
                ELSE S,
                "driversSnapshot", s, driversSnapshot(S))
  ELSE S

\* resumeSession once the key was found in sessions
resumeOf(S, s, sessionKey, existingSession) ==
  readmitUser(
    restoreDriver(
      joinRole(
        takeOverAccount(
          rebindSession(closeKeyHolder(S, s, sessionKey), s, sessionKey, existingSession),
          s, existingSession.accountId),
        s, existingSession.role),
      s, existingSession.role, existingSession.accountId),
    s, existingSession.role, existingSession.accountId)

\* sessionKey = NoSock stands for a missing or non-string key.
resumeSession(S, s, sessionKey) ==
  IF sessionKey = NoSock THEN EmitError(S, s)
  ELSE IF sessionKey \notin DOMAIN S.sessions THEN EmitError(S, s)
  ELSE resumeOf(S, s, sessionKey, S.sessions[sessionKey])

\* ------------------------------------------------------------ helpers of the driver handlers
Infinity == 2000000000

\* calculateDistance, squared (the comparison d > t is d*d > t*t for d, t >= 0)
calculateDistance(lat1, lng1, lat2, lng2) ==
  IF Falsy(lat1) \/ Falsy(lng1) \/ Falsy(lat2) \/ Falsy(lng2) THEN Infinity
  ELSE LET dLat == IF lat1 >= lat2 THEN lat1 - lat2 ELSE lat2 - lat1
           dLng == IF lng1 >= lng2 THEN lng1 - lng2 ELSE lng2 - lng1
       IN dLat * dLat + dLng * dLng

\* checkRateLimit that counts the calls it refuses
checkRateLimit_CountingRefused(S, socketId) ==
  IF socketId \notin DOMAIN S.rate \/ S.now > S.rate[socketId].resetTime
  THEN <<TRUE, Put(S.rate, socketId, [count |-> 1, resetTime |-> S.now + RATE_WINDOW])>>
  ELSE IF S.rate[socketId].count >= MAX_LOCATION_UPDATES_PER_MINUTE
  THEN <<FALSE, [S.rate EXCEPT ![socketId].count = @ + 1]>>
  ELSE <<TRUE, [S.rate EXCEPT ![socketId].count = @ + 1]>>

\* checkRateLimit: <<allowed, rateLimitMap after the call>>
checkRateLimit(S, socketId) ==
  IF socketId \notin DOMAIN S.rate \/ S.now > S.rate[socketId].resetTime
  THEN <<TRUE, Put(S.rate, socketId, [count |-> 1, resetTime |-> S.now + RATE_WINDOW])>>
  ELSE IF S.rate[socketId].count >= MAX_LOCATION_UPDATES_PER_MINUTE
  THEN <<FALSE, S.rate>>
  ELSE <<TRUE, [S.rate EXCEPT ![socketId].count = @ + 1]>>

\* validateLocationData (coordinates in micro-degrees; Undef = missing or NaN)
validateLocationData(d) ==
  /\ d.accountId # NoAcct
  /\ d.lat # Undef /\ d.lng # Undef
  /\ d.lat >= 0 - 90000000 /\ d.lat <= 90000000
  /\ d.lng >= 0 - 180000000 /\ d.lng <= 180000000

\* emitDriverStateRestoredIfPending that leaves the flag set
emitDriverStateRestoredIfPending_KeepingFlag(S, s, accountId) ==
  IF accountId \in S.pending /\ accountId \in DOMAIN S.drivers
  THEN LET driver == S.drivers[accountId]
       IN Emit(S, "driverStateRestored", s, accountId,
               Nullish(driver.passengerCount, 0), Nullish(driver.maxCapacity, 0),
               driver.lat, driver.lng)
  ELSE S

emitDriverStateRestoredIfPending(S, s, accountId) ==
  IF accountId \in S.pending /\ accountId \in DOMAIN S.drivers
  THEN LET driver == S.drivers[accountId]
       IN [Emit(S, "driverStateRestored", s, accountId,
                Nullish(driver.passengerCount, 0), Nullish(driver.maxCapacity, 0),
                driver.lat, driver.lng)
           EXCEPT !.pending = @ \ {accountId}]
  ELSE S

\* delete socketToAccountId[prev.socketId], prev read after the incumbent closed
dropReboundSocket(S, accountId) ==
  [S EXCEPT !.s2a = Del(@, S.drivers[accountId].socketId)]

\* The reconnect / socket-change prologue shared by the four driver handlers.
\* prev is drivers[accountId], which cleanup may mutate while the incumbent is
\* being closed; the caller reads the record again afterwards.
rebindDriver(S, s, accountId) ==
  IF accountId \notin DOMAIN S.drivers THEN S
  ELSE LET prev == S.drivers[accountId]
       IN IF prev.disconnected
          THEN [S EXCEPT !.drivers[accountId].disconnected = FALSE,
                         !.drivers[accountId].disconnectedAt = Undef,
                         !.drivers[accountId].reconnectAttempts = @ + 1,
                         !.s2a = IF prev.socketId # NoSock /\ prev.socketId # s
                                 THEN Del(@, prev.socketId) ELSE @]
          ELSE IF prev.socketId # NoSock /\ prev.socketId # s
          THEN dropReboundSocket(disconnectOldSocket(S, prev.socketId), accountId)
          ELSE S

\* const prev = drivers[accountId] || {}
prevDriver(S, accountId) ==
  IF accountId \in DOMAIN S.drivers THEN S.drivers[accountId] ELSE NewDriver

\* drivers[accountId] = rec and the two index writes every driver handler makes
storeDriver(S, s, accountId, rec, event) ==
  [S EXCEPT !.drivers = Put(@, accountId, rec),
            !.s2a = Put(@, s, accountId),
            !.a2s = Put(@, accountId, s),
            !.accepted = <<event, s, accountId>>]

\* if (c) io.to("user").emit(ev, payload)
BroadcastToUsersIf(c, S, ev, acct, pc, mc, lat, lng) ==
  IF c THEN BroadcastToUsers(S, ev, acct, pc, mc, lat, lng) ELSE S

\* ------------------------------------------------------------ updateLocation
\* shouldBroadcast, from the record read after the prologue
shouldBroadcastLocation(S, d, hasPrev, prev) ==
  LET timeSinceLastBroadcast ==
        IF hasPrev /\ ~Falsy(prev.lastBroadcastTime)
        THEN S.now - prev.lastBroadcastTime ELSE Infinity
      locationChanged ==
        \/ ~hasPrev \/ Falsy(prev.lastLat) \/ Falsy(prev.lastLng)
        \/ calculateDistance(d.lat, d.lng, prev.lastLat, prev.lastLng)
             > LOCATION_CHANGE_THRESHOLD * LOCATION_CHANGE_THRESHOLD
      passengerDataChanged ==
        d.passengerCount # prev.passengerCount \/ d.maxCapacity # prev.maxCapacity
      isIntervalUpdate == timeSinceLastBroadcast >= LOCATION_UPDATE_INTERVAL
  IN ~hasPrev \/ locationChanged \/ passengerDataChanged \/ isIntervalUpdate

\* locationRecord whose anchors follow every received position
locationRecord_AnchorsFollow(S, s, d, prev, shouldBroadcast) ==
  [prev EXCEPT
     !.destinationLat = Nullish(d.destinationLat, prev.destinationLat),
     !.destinationLng = Nullish(d.destinationLng, prev.destinationLng),
     !.lat = d.lat,
     !.lng = d.lng,
     !.passengerCount = Nullish(Nullish(d.passengerCount, prev.passengerCount), 0),
     !.maxCapacity = Nullish(Nullish(d.maxCapacity, prev.maxCapacity), 0),
     !.lastUpdated = S.now,
     !.socketId = s,
     !.disconnected = FALSE,
     !.disconnectedAt = Undef,
     !.lastLat = d.lat,
     !.lastLng = d.lng,
     !.lastBroadcastTime = IF shouldBroadcast THEN S.now ELSE prev.lastBroadcastTime]

\* the record updateLocation writes
locationRecord(S, s, d, prev, shouldBroadcast) ==
  [prev EXCEPT
     !.destinationLat = Nullish(d.destinationLat, prev.destinationLat),
     !.destinationLng = Nullish(d.destinationLng, prev.destinationLng),
     !.lat = d.lat,
     !.lng = d.lng,
     !.passengerCount = Nullish(Nullish(d.passengerCount, prev.passengerCount), 0),
     !.maxCapacity = Nullish(Nullish(d.maxCapacity, prev.maxCapacity), 0),
     !.lastUpdated = S.now,
     !.socketId = s,
     !.disconnected = FALSE,
     !.disconnectedAt = Undef,
     !.lastLat = IF shouldBroadcast THEN d.lat ELSE Nullish(prev.lastLat, d.lat),
     !.lastLng = IF shouldBroadcast THEN d.lng ELSE Nullish(prev.lastLng, d.lng),
     !.lastBroadcastTime = IF shouldBroadcast THEN S.now ELSE prev.lastBroadcastTime]

writeLocation(S, s, d, rec, shouldBroadcast) ==
  BroadcastToUsersIf(shouldBroadcast,
    emitDriverStateRestoredIfPending(
      storeDriver(S, s, d.accountId, rec, "updateLocation"), s, d.accountId),
    "locationUpdate", d.accountId, rec.passengerCount, rec.maxCapacity, d.lat, d.lng)

decideLocation(S, s, d, prev, shouldBroadcast) ==
  writeLocation(S, s, d, locationRecord(S, s, d, prev, shouldBroadcast), shouldBroadcast)

\* updateLocation after the reconnect / socket-change prologue
mergeLocation(S, s, d) ==
  decideLocation(S, s, d, prevDriver(S, d.accountId),
                 shouldBroadcastLocation(S, d, d.accountId \in DOMAIN S.drivers,
                                         prevDriver(S, d.accountId)))

updateLocation(S, s, d) ==
  IF ~validateLocationData(d) THEN EmitError(S, s)
  ELSE IF ~checkRateLimit(S, s)[1]
  THEN EmitError([S EXCEPT !.rate = checkRateLimit(S, s)[2]], s)
  ELSE mergeLocation(
         rebindDriver([S EXCEPT !.rate = checkRateLimit(S, s)[2]], s, d.accountId), s, d)

\* ------------------------------------------------------------ destinationUpdate
destinationRecord(S, s, d, prev) ==
  [prev EXCEPT
     !.destinationLat = Nullish(d.destinationLat, prev.destinationLat),
     !.destinationLng = Nullish(d.destinationLng, prev.destinationLng),
     !.lastUpdated = S.now,
     !.socketId = s,
     !.disconnected = FALSE,
     !.disconnectedAt = Undef]

writeDestination(S, s, d, rec) ==
  BroadcastToUsers(storeDriver(S, s, d.accountId, rec, "destinationUpdate"),
                   "destinationUpdate", d.accountId,
                   Nullish(rec.passengerCount, 0), Nullish(rec.maxCapacity, 0),
                   rec.destinationLat, rec.destinationLng)

\* destinationUpdate after the reconnect / socket-change prologue
mergeDestination(S, s, d) ==
  writeDestination(S, s, d, destinationRecord(S, s, d, prevDriver(S, d.accountId)))

\* destinationUpdate that passes through the rate gate of updateLocation
destinationUpdate_Gated(S, s, d) ==
  IF d.accountId = NoAcct THEN EmitError(S, s)
  ELSE IF ~checkRateLimit(S, s)[1]
  THEN EmitError([S EXCEPT !.rate = checkRateLimit(S, s)[2]], s)
  ELSE mergeDestination(
         rebindDriver([S EXCEPT !.rate = checkRateLimit(S, s)[2]], s, d.accountId), s, d)

destinationUpdate(S, s, d) ==
  IF d.accountId = NoAcct THEN EmitError(S, s)
  ELSE mergeDestination(rebindDriver(S, s, d.accountId), s, d)

\* ------------------------------------------------------------ routeUpdate
\* geometry is an opaque value compared by its serialisation; Undef = no geometry
routeChanged(d, prev) ==
  \/ d.geometry # prev.geometry
  \/ d.destinationLat # Undef /\ d.destinationLat # prev.destinationLat
  \/ d.destinationLng # Undef /\ d.destinationLng # prev.destinationLng

routeRecord(S, s, d, prev) ==
  [prev EXCEPT
     !.geometry = d.geometry,
     !.destinationLat = Nullish(d.destinationLat, prev.destinationLat),
     !.destinationLng = Nullish(d.destinationLng, prev.destinationLng),
     !.lastUpdated = S.now,
     !.socketId = s,
     !.disconnected = FALSE,
     !.disconnectedAt = Undef]

writeRoute(S, s, d, rec, changed) ==
  BroadcastToUsersIf(changed, storeDriver(S, s, d.accountId, rec, "routeUpdate"),
                     "routeUpdate", d.accountId,
                     Nullish(rec.passengerCount, 0), Nullish(rec.maxCapacity, 0),
                     rec.destinationLat, rec.destinationLng)

\* routeUpdate after the reconnect / socket-change prologue
mergeRoute(S, s, d) ==
  writeRoute(S, s, d, routeRecord(S, s, d, prevDriver(S, d.accountId)),
             routeChanged(d, prevDriver(S, d.accountId)))

routeUpdate(S, s, d) ==
  IF d.accountId = NoAcct THEN EmitError(S, s)
  ELSE mergeRoute(rebindDriver(S, s, d.accountId), s, d)

\* ------------------------------------------------------------ passengerUpdate
\* valuesChanged that reports a change for every message
valuesChanged_Always(d, prev) == TRUE

valuesChanged(d, prev) ==
  \/ Nullish(Nullish(d.passengerCount, prev.passengerCount), 0)
       # Nullish(prev.passengerCount, 0)
  \/ Nullish(Nullish(d.maxCapacity, prev.maxCapacity), 0) # Nullish(prev.maxCapacity, 0)

passengerRecord(S, s, d, prev) ==
  [prev EXCEPT
     !.passengerCount = Nullish(Nullish(d.passengerCount, prev.passengerCount), 0),
     !.maxCapacity = Nullish(Nullish(d.maxCapacity, prev.maxCapacity), 0),
     !.lastUpdated = S.now,
     !.socketId = s,
     !.disconnected = FALSE,
     !.disconnectedAt = Undef]

writePassengers(S, s, d, rec, changed) ==
  BroadcastToUsersIf(changed,
    emitDriverStateRestoredIfPending(
      storeDriver(S, s, d.accountId, rec, "passengerUpdate"), s, d.accountId),
    "passengerUpdate", d.accountId, rec.passengerCount, rec.maxCapacity, Undef, Undef)

\* passengerUpdate after the reconnect / socket-change prologue
mergePassengers(S, s, d) ==
  writePassengers(S, s, d, passengerRecord(S, s, d, prevDriver(S, d.accountId)),
                  valuesChanged(d, prevDriver(S, d.accountId)))

passengerUpdate(S, s, d) ==
  IF d.accountId = NoAcct THEN EmitError(S, s)
  ELSE mergePassengers(rebindDriver(S, s, d.accountId), s, d)

\* ------------------------------------------------------------ pingDriver
Abs(x) == IF x < 0 THEN 0 - x ELSE x

\* The passengerCount of a pingDriver payload is a number, written in tenths:
\* CountUnit stands for 1, CountUnit \div 2 for 0.5.
CountUnit == 10

\* Math.floor(Math.abs(parsedCount)) that rounds to the nearest integer
floorAbs_Rounding(x) == (Abs(x) + CountUnit \div 2) \div CountUnit

\* Math.floor(Math.abs(parsedCount))
floorAbs(x) == Abs(x) \div CountUnit

\* passengerCount !== undefined && passengerCount !== null
countGiven(d) == d.passengerCount \notin {Undef, Null}

\* pingUserAccountId || userAccountId || "unknown"
Effective(S, s, payloadId) ==
  IF payloadId # NoAcct THEN payloadId
  ELSE IF Get(S.s2a, s) # NoAcct THEN Get(S.s2a, s) ELSE Unknown

pingDriver(S, s, d) ==
  LET userAccountId == Get(S.s2a, s)
      effectiveUserAccountId == Effective(S, s, d.userAccountId)
      intCount == floorAbs(d.passengerCount)
      requestedPassengerCount == IF countGiven(d) THEN intCount ELSE 1
      driverSocketId == Get(S.a2s, d.driverAccountId)
  IN
  IF S.role[s] # "user" THEN EmitError(S, s)
  ELSE IF d.driverAccountId = NoAcct THEN EmitError(S, s)
  ELSE IF d.lat = Undef \/ d.lng = Undef THEN EmitError(S, s)
  ELSE IF d.lat < 0 - 90000000 \/ d.lat > 90000000 THEN EmitError(S, s)
  ELSE IF d.lng < 0 - 180000000 \/ d.lng > 180000000 THEN EmitError(S, s)
  ELSE IF countGiven(d) /\ intCount < 1 THEN EmitError(S, s)
  ELSE IF countGiven(d) /\ intCount > MAX_BOARDING_PASSENGERS THEN EmitError(S, s)
  ELSE IF d.driverAccountId \notin DOMAIN S.drivers THEN EmitError(S, s)
  ELSE IF driverSocketId = NoSock THEN EmitError(S, s)
  ELSE IF ~Connected(S, driverSocketId) \/ S.drivers[d.driverAccountId].disconnected
       THEN EmitError(S, s)
  ELSE
    LET S1 == IF userAccountId # NoAcct /\ userAccountId \in DOMAIN S.users
              THEN [S EXCEPT !.users[userAccountId].lat = d.lat,
                             !.users[userAccountId].lng = d.lng,
                             !.users[userAccountId].lastActivity = S.now]
              ELSE IF userAccountId # NoAcct
              THEN [S EXCEPT !.users = Put(@, userAccountId,
                                           [NewUser(s, S.now) EXCEPT !.lat = d.lat,
                                                                     !.lng = d.lng]),
                             !.s2a = Put(@, s, userAccountId),
                             !.a2s = Put(@, userAccountId, s)]
              ELSE S
        \* re-read: the user's account may also be the driver's
        dsock == driverSocketId
        S2 == [S1 EXCEPT !.drivers[d.driverAccountId].waitingPassengers =
                 Put(@, effectiveUserAccountId,
                     [lat |-> d.lat, lng |-> d.lng,
                      passengerCount |-> requestedPassengerCount]),
                         !.accepted = <<"pingDriver", s, d.driverAccountId>>]
    IN Emit(S2, "pingReceived", dsock, effectiveUserAccountId,
            requestedPassengerCount, Undef, d.lat, d.lng)

\* ------------------------------------------------------------ unpingDriver
unpingDriver(S, s, d) ==
  LET userAccountId == Get(S.s2a, s)
      S0 == IF userAccountId # NoAcct /\ userAccountId \in DOMAIN S.users
            THEN [S EXCEPT !.users[userAccountId].lastActivity = S.now]
            ELSE S
      effectiveUserAccountId == Effective(S, s, d.userAccountId)
      driverSocketId == Get(S.a2s, d.driverAccountId)
  IN
  IF S.role[s] # "user" THEN EmitError(S, s)
  ELSE IF d.driverAccountId = NoAcct THEN EmitError(S0, s)
  ELSE IF d.driverAccountId \notin DOMAIN S.drivers THEN EmitError(S0, s)
  ELSE IF driverSocketId = NoSock THEN EmitError(S0, s)
  ELSE IF ~Connected(S, driverSocketId) \/ S.drivers[d.driverAccountId].disconnected
       THEN EmitError(S0, s)
  ELSE
    LET S1 == [S0 EXCEPT !.drivers[d.driverAccountId].waitingPassengers =
                 Del(@, effectiveUserAccountId),
                         !.accepted = <<"unpingDriver", s, d.driverAccountId>>]
    IN Emit(S1, "pingRemoved", driverSocketId, effectiveUserAccountId,
            Undef, Undef, Undef, Undef)

\* ------------------------------------------------------------ endSession
\* endSession that announces the removal although the record is already gone
endSession_Announcing(S, s) ==
  LET accountId == Get(S.s2a, s)
  IN
  IF accountId = NoAcct THEN S
  ELSE IF S.role[s] # "driver" THEN S
  ELSE IF accountId \notin DOMAIN S.drivers
  THEN BroadcastToUsers(S, "driverRemoved", accountId, Undef, Undef, Undef, Undef)
  ELSE
    LET driver == S.drivers[accountId]
        sessionKey == Get(S.s2k, s)
        S1 == [S EXCEPT !.drivers = Del(@, accountId),
                        !.s2a = IF driver.socketId # NoSock
                                THEN Del(@, driver.socketId) ELSE @,
                        !.a2s = Del(@, accountId)]
        S2 == IF sessionKey # NoSock
              THEN [S1 EXCEPT !.k2s = IF Get(@, sessionKey) = s
                                      THEN Del(@, sessionKey) ELSE @,
                              !.sessions = Del(@, sessionKey)]
              ELSE S1
        S3 == [S2 EXCEPT !.s2k = Del(@, s), !.rate = Del(@, s),
                         !.pending = @ \ {accountId},
                         !.accepted = <<"endSession", s, accountId>>]
    IN BroadcastToUsers(S3, "driverRemoved", accountId, Undef, Undef, Undef, Undef)

endSession(S, s) ==
  LET accountId == Get(S.s2a, s)
  IN
  IF accountId = NoAcct THEN S
  ELSE IF S.role[s] # "driver" THEN S
  ELSE IF accountId \notin DOMAIN S.drivers THEN S
  ELSE
    LET driver == S.drivers[accountId]
        sessionKey == Get(S.s2k, s)
        S1 == [S EXCEPT !.drivers = Del(@, accountId),
                        !.s2a = IF driver.socketId # NoSock
                                THEN Del(@, driver.socketId) ELSE @,
                        !.a2s = Del(@, accountId)]
        S2 == IF sessionKey # NoSock
              THEN [S1 EXCEPT !.k2s = IF Get(@, sessionKey) = s
                                      THEN Del(@, sessionKey) ELSE @,
                              !.sessions = Del(@, sessionKey)]
              ELSE S1
        S3 == [S2 EXCEPT !.s2k = Del(@, s), !.rate = Del(@, s),
                         !.pending = @ \ {accountId},
                         !.accepted = <<"endSession", s, accountId>>]
    IN BroadcastToUsers(S3, "driverRemoved", accountId, Undef, Undef, Undef, Undef)

\* ------------------------------------------------------------ read-only user requests
\* getBusInfo, requestDriversData and requestCurrentData touch the sender's
\* lastActivity and answer the sender.
touchActivity(S, s) ==
  LET userAccountId == Get(S.s2a, s)
  IN IF userAccountId # NoAcct /\ userAccountId \in DOMAIN S.users
     THEN [S EXCEPT !.users[userAccountId].lastActivity = S.now]
     ELSE S

getBusInfo(S, s, accountId) ==
  IF accountId = NoAcct
  THEN Emit(touchActivity(S, s), "busInfoError", s, NoAcct, Undef, Undef, Undef, Undef)
  ELSE IF accountId \in DOMAIN S.drivers
  THEN Emit(touchActivity(S, s), "busInfo", s, accountId,
            S.drivers[accountId].passengerCount, S.drivers[accountId].maxCapacity,
            Undef, Undef)
  ELSE Emit(touchActivity(S, s), "busInfoError", s, accountId, Undef, Undef, Undef, Undef)

requestDriversData(S, s) ==
  EmitList(touchActivity(S, s), "driversData", s, driversData(S))

requestCurrentData(S, s) ==
  EmitList(touchActivity(S, s), "driversSnapshot", s, driversSnapshot(S))

\* ------------------------------------------------------------ periodic cleanup
\* staleDriverStep whose reconciliation leaves the dead connection in the record
staleDriverStep_KeepingSocket(S, accountId) ==
  LET driver == S.drivers[accountId]
      timeSinceUpdate == S.now - driver.lastUpdated
      timeSinceDisconnect ==
        IF Falsy(driver.disconnectedAt) THEN 0 ELSE S.now - driver.disconnectedAt
      isDisconnected == driver.disconnected
      gracePeriodExpired == isDisconnected /\ timeSinceDisconnect > DISCONNECT_GRACE_PERIOD
      S1 == IF /\ driver.socketId # NoSock
               /\ ~Connected(S, driver.socketId)
               /\ ~isDisconnected
            THEN [S EXCEPT !.drivers[accountId].disconnected = TRUE,
                           !.drivers[accountId].disconnectedAt = S.now,
                           !.a2s = Del(@, accountId)]
            ELSE S
      sid == S1.drivers[accountId].socketId
  IN IF timeSinceUpdate > STALE_DRIVER_TIMEOUT /\ (~isDisconnected \/ gracePeriodExpired)
     THEN [S1 EXCEPT !.drivers = Del(@, accountId),
                     !.s2a = IF sid # NoSock THEN Del(@, sid) ELSE @,
                     !.a2s = Del(@, accountId)]
     ELSE S1

staleDriverStep(S, accountId) ==
  LET driver == S.drivers[accountId]
      timeSinceUpdate == S.now - driver.lastUpdated
      timeSinceDisconnect ==
        IF Falsy(driver.disconnectedAt) THEN 0 ELSE S.now - driver.disconnectedAt
      isDisconnected == driver.disconnected
      gracePeriodExpired == isDisconnected /\ timeSinceDisconnect > DISCONNECT_GRACE_PERIOD
      S1 == IF /\ driver.socketId # NoSock
               /\ ~Connected(S, driver.socketId)
               /\ ~isDisconnected
            THEN [S EXCEPT !.drivers[accountId].disconnected = TRUE,
                           !.drivers[accountId].disconnectedAt = S.now,
                           !.drivers[accountId].socketId = NoSock,
                           !.a2s = Del(@, accountId)]
            ELSE S
      sid == S1.drivers[accountId].socketId
  IN IF timeSinceUpdate > STALE_DRIVER_TIMEOUT /\ (~isDisconnected \/ gracePeriodExpired)
     THEN [S1 EXCEPT !.drivers = Del(@, accountId),
                     !.s2a = IF sid # NoSock THEN Del(@, sid) ELSE @,
                     !.a2s = Del(@, accountId)]
     ELSE S1

staleUserStep(S, accountId) ==
  LET user == S.users[accountId]
      timeSinceActivity == S.now - user.lastActivity
      timeSinceDisconnect ==
        IF Falsy(user.disconnectedAt) THEN 0 ELSE S.now - user.disconnectedAt
      isDisconnected == user.disconnected
      S1 == IF /\ user.socketId # NoSock
               /\ ~Connected(S, user.socketId)
               /\ ~isDisconnected
            THEN [S EXCEPT !.users[accountId].disconnected = TRUE,
                           !.users[accountId].disconnectedAt = S.now,
                           !.users[accountId].socketId = NoSock,
                           !.a2s = Del(@, accountId)]
            ELSE S
      gracePeriodExpired == isDisconnected /\ timeSinceDisconnect > DISCONNECT_GRACE_PERIOD
      sid == S1.users[accountId].socketId
  IN IF timeSinceActivity > STALE_USER_TIMEOUT /\ (~isDisconnected \/ gracePeriodExpired)
     THEN [S1 EXCEPT !.users = Del(@, accountId),
                     !.s2a = IF sid # NoSock THEN Del(@, sid) ELSE @,
                     !.a2s = Del(@, accountId)]
     ELSE S1

RECURSIVE cleanupStaleDriversFrom(_, _)
cleanupStaleDriversFrom(S, as) ==
  IF as = <<>> THEN S
  ELSE cleanupStaleDriversFrom(staleDriverStep(S, Head(as)), Tail(as))

cleanupStaleDrivers(S) == cleanupStaleDriversFrom(S, Ascending(DOMAIN S.drivers))

RECURSIVE cleanupStaleUsersFrom(_, _)
cleanupStaleUsersFrom(S, as) ==
  IF as = <<>> THEN S
  ELSE cleanupStaleUsersFrom(staleUserStep(S, Head(as)), Tail(as))

cleanupStaleUsers(S) == cleanupStaleUsersFrom(S, Ascending(DOMAIN S.users))

\* the second 60 s timer: expired rate-limit windows are dropped
sweepRateLimits(S) ==
  [S EXCEPT !.rate = [x \in {y \in DOMAIN S.rate : ~(S.now > S.rate[y].resetTime)}
                        |-> S.rate[x]]]

\* ------------------------------------------------------------ initial state
Init ==
  /\ drivers = Empty
  /\ users = Empty
  /\ socketToAccountId = Empty
  /\ accountIdToSocketId = Empty
  /\ sessionKeyToSocketId = Empty
  /\ socketIdToSessionKey = Empty
  /\ sessions = Empty
  /\ rateLimitMap = Empty
  /\ pendingStateRestore = {}
  /\ conn = [s \in Sock |-> "new"]
  /\ role = [s \in Sock |-> "none"]
  /\ rooms = [s \in Sock |-> {}]
  /\ now = StartTime
  /\ nextCleanup = StartTime + CLEANUP_INTERVAL
  /\ nextKey = 1
  /\ out = <<>>
  /\ accepted = None

\* ------------------------------------------------------------ actions
Handled(S) == Commit(S) /\ UNCHANGED <<now, nextCleanup>>

\* io.on("connection"): socket ids are fresh, so the next unused one is taken
Connect ==
  \E s \in Sock :
    /\ conn[s] = "new"
    /\ \A x \in Sock : x < s => conn[x] # "new"
    /\ Handled([State EXCEPT !.conn[s] = "open"])

\* socket.on("disconnect")
Disconnect(s) ==
  /\ conn[s] \in {"open", "closing"}
  /\ Handled(OnDisconnect(State, s))

\* socket.on("error"): cleanup runs while the socket is still connected; the
\* engine then closes the transport, and no further packet of s is read.
SocketError(s) ==
  /\ conn[s] = "open"
  /\ Handled(cleanup([State EXCEPT !.conn[s] = "closing"], s))

RegisterRole(s, r, a) ==
  /\ conn[s] = "open"
  /\ nextKey <= MaxKeys
  /\ Handled(registerRole(State, s, r, a))

ResumeSession(s, k) ==
  /\ conn[s] = "open"
  /\ k < nextKey
  /\ Handled(resumeSession(State, s, k))

UpdateLocation(s, d) ==
  /\ conn[s] = "open"
  /\ Handled(updateLocation(State, s, d))

DestinationUpdate(s, d) ==
  /\ conn[s] = "open"
  /\ Handled(destinationUpdate(State, s, d))

RouteUpdate(s, d) ==
  /\ conn[s] = "open"
  /\ Handled(routeUpdate(State, s, d))

PassengerUpdate(s, d) ==
  /\ conn[s] = "open"
  /\ Handled(passengerUpdate(State, s, d))

PingDriver(s, d) ==
  /\ conn[s] = "open"
  /\ Handled(pingDriver(State, s, d))

UnpingDriver(s, d) ==
  /\ conn[s] = "open"
  /\ Handled(unpingDriver(State, s, d))

EndSession(s) ==
  /\ conn[s] = "open"
  /\ Handled(endSession(State, s))

GetBusInfo(s, a) ==
  /\ conn[s] = "open"
  /\ Handled(getBusInfo(State, s, a))

RequestDriversData(s) ==
  /\ conn[s] = "open"
  /\ Handled(requestDriversData(State, s))

RequestCurrentData(s) ==
  /\ conn[s] = "open"
  /\ Handled(requestCurrentData(State, s))

\* Time passes without reaching the next timer instant.
Advance(d) ==
  /\ now + d < nextCleanup
  /\ now' = now + d
  /\ out' = <<>>
  /\ accepted' = None
  /\ UNCHANGED <<drivers, users, socketToAccountId, accountIdToSocketId,
                 sessionKeyToSocketId, socketIdToSessionKey, sessions, rateLimitMap,
                 pendingStateRestore, conn, role, rooms, nextCleanup, nextKey>>

\* Time reaches the next timer instant: both 60 s interval callbacks run back
\* to back (same timer list), cleanupStaleDrivers(); cleanupStaleUsers(); then
\* the rate-limit sweep.
TimerTick ==
  /\ nextCleanup <= StartTime + MaxSweeps * CLEANUP_INTERVAL
  /\ now' = nextCleanup
  /\ nextCleanup' = nextCleanup + CLEANUP_INTERVAL
  /\ Commit(sweepRateLimits(cleanupStaleUsers(cleanupStaleDrivers(
              [State EXCEPT !.now = nextCleanup]))))

\* ------------------------------------------------------------ inputs
MaxBurst == 1          \* updateLocation messages a client sends per rate window
MaxRegistryAccts == 1  \* account ids the clients of Spec use

Roles == {"user", "driver", "bogus"}
Pos == 1               \* a valid coordinate (micro-degrees)
Pax == 2               \* a passenger count reported by a driver

\* payloads over the account ids A; NoAcct is a missing accountId
LocIn(A) ==
  [accountId : A \cup {NoAcct}, lat : {Pos}, lng : {Pos}, passengerCount : {Pax},
   maxCapacity : {Undef}, destinationLat : {Undef}, destinationLng : {Undef}]
DestIn(A) == [accountId : A \cup {NoAcct}, destinationLat : {Pos}, destinationLng : {Pos}]
RouteIn(A) ==
  [accountId : A \cup {NoAcct}, geometry : {1}, destinationLat : {Undef},
   destinationLng : {Undef}]
PassIn(A) == [accountId : A \cup {NoAcct}, passengerCount : {Undef, Pax}, maxCapacity : {Undef}]
PingIn(A) ==
  [driverAccountId : A \cup {NoAcct}, lat : {Pos}, lng : {Pos}, passengerCount : {Undef},
   userAccountId : {NoAcct}]
UnpingIn(A) == [driverAccountId : A \cup {NoAcct}, userAccountId : {NoAcct}]

BurstOk(s) ==
  IF s \in DOMAIN rateLimitMap
  THEN IF now > rateLimitMap[s].resetTime THEN TRUE
       ELSE rateLimitMap[s].count < MaxBurst
  ELSE TRUE

\* ------------------------------------------------------------ Spec: the registry
\* Clients connect, register, resume, send driver updates, end sessions and
\* disconnect, in any order, within one cleanup interval.
RegistryAccts == 1..MaxRegistryAccts

Next ==
  \/ Connect
  \/ \E s \in Sock : Disconnect(s)
  \/ \E s \in Sock, r \in Roles, a \in RegistryAccts \cup {NoAcct} : RegisterRole(s, r, a)
  \/ \E s \in Sock, k \in 0..MaxKeys : ResumeSession(s, k)
  \/ \E s \in Sock, d \in LocIn(RegistryAccts) : BurstOk(s) /\ UpdateLocation(s, d)
  \/ \E s \in Sock, d \in PassIn(RegistryAccts) : PassengerUpdate(s, d)
  \/ \E s \in Sock : EndSession(s)

Spec == Init /\ [][Next]_vars

\* ------------------------------------------------------------ SpecPing: ping routing
\* Users and drivers register, drivers report positions, users ping and unping
\* drivers, connections close; within one cleanup interval.
MaxPingKeys == 2       \* registrations in a run of SpecPing

NextPing ==
  \/ Connect
  \/ \E s \in Sock : Disconnect(s)
  \/ \E s \in Sock, r \in {"user", "driver"}, a \in Acct :
       nextKey <= MaxPingKeys /\ RegisterRole(s, r, a)
  \/ \E s \in Sock, d \in LocIn(Acct) : BurstOk(s) /\ UpdateLocation(s, d)
  \/ \E s \in Sock, d \in PingIn(Acct) : PingDriver(s, d)
  \/ \E s \in Sock, d \in UnpingIn(Acct) : UnpingDriver(s, d)

SpecPing == Init /\ [][NextPing]_vars

\* ------------------------------------------------------------ SpecReaper: the periodic cleanup
\* Drivers and users register and resume, drivers report positions and end
\* their sessions, connections close, time passes and the 60 s timers fire.
MaxReaperKeys == 1     \* registrations in a run of SpecReaper

NextReaper ==
  \/ Connect
  \/ \E s \in Sock : Disconnect(s)
  \/ \E s \in Sock, r \in {"user", "driver"}, a \in Acct :
       nextKey <= MaxReaperKeys /\ RegisterRole(s, r, a)
  \/ \E s \in Sock, d \in LocIn(Acct) : BurstOk(s) /\ UpdateLocation(s, d)
  \/ \E s \in Sock, k \in 1..MaxReaperKeys : ResumeSession(s, k)
  \/ \E s \in Sock : EndSession(s)
  \/ TimerTick

SpecReaper == Init /\ [][NextReaper]_vars

\* ------------------------------------------------------------ SpecFilter: the update filter
\* A driver account reports positions at, just inside and just outside the
\* movement threshold, and a zero latitude; passenger counts, destinations
\* and routes change; connections register, close and are replaced; time
\* passes in thirds of the heartbeat interval.
MaxFilterSteps == 3    \* time steps in a run of SpecFilter
MaxFilterBurst == 2    \* updateLocation messages a connection sends in SpecFilter
MaxFilterKeys == 1     \* registrations in a run of SpecFilter

HeartbeatStep == LOCATION_UPDATE_INTERVAL \div 3
Near == Pos + LOCATION_CHANGE_THRESHOLD - 1   \* within the threshold of Pos
Far == Pos + LOCATION_CHANGE_THRESHOLD + 1    \* beyond the threshold of Pos
Cap == Pax + 1                                \* a maximum capacity

LocF(A) ==
  [accountId : A, lat : {0, Pos, Near, Far}, lng : {Pos}, passengerCount : {Pax},
   maxCapacity : {Cap}, destinationLat : {Undef}, destinationLng : {Undef}]
PassF(A) == [accountId : A, passengerCount : {Undef, Pax + 1}, maxCapacity : {Undef}]
DestF(A) == [accountId : A, destinationLat : {Pos}, destinationLng : {Pos}]
RouteF(A) ==
  [accountId : A, geometry : {1}, destinationLat : {Undef}, destinationLng : {Undef}]

FilterBurstOk(s) ==
  s \in DOMAIN rateLimitMap => rateLimitMap[s].count < MaxFilterBurst

NextFilter ==
  \/ Connect
  \/ \E s \in Sock : Disconnect(s)
  \/ \E s \in Sock, a \in RegistryAccts :
       nextKey <= MaxFilterKeys /\ RegisterRole(s, "driver", a)
  \/ \E s \in Sock, d \in LocF(RegistryAccts) : FilterBurstOk(s) /\ UpdateLocation(s, d)
  \/ \E s \in Sock, d \in PassF(RegistryAccts) : PassengerUpdate(s, d)
  \/ \E s \in Sock, d \in DestF(RegistryAccts) : DestinationUpdate(s, d)
  \/ \E s \in Sock, d \in RouteF(RegistryAccts) : RouteUpdate(s, d)
  \/ now + HeartbeatStep <= StartTime + MaxFilterSteps * HeartbeatStep
       /\ Advance(HeartbeatStep)

SpecFilter == Init /\ [][NextFilter]_vars

\* ------------------------------------------------------------ SpecRate: the rate gate
\* Connections send valid and invalid updateLocation messages as fast as they
\* like, register, close; time passes in half windows and the 60 s timers fire.
MaxRateSweeps == 2     \* firings of the cleanup timer in a run of SpecRate
MaxRateKeys == 1       \* registrations in a run of SpecRate

RateStep == RATE_WINDOW \div 2

\* a valid payload, and payloads without account id, without latitude and
\* with a latitude out of range
LocR(A) ==
  [accountId : A \cup {NoAcct}, lat : {Pos}, lng : {Pos}, passengerCount : {Pax},
   maxCapacity : {Undef}, destinationLat : {Undef}, destinationLng : {Undef}]
  \cup [accountId : A, lat : {Undef, 90000000 + Pos}, lng : {Pos},
        passengerCount : {Pax}, maxCapacity : {Undef}, destinationLat : {Undef},
        destinationLng : {Undef}]

NextRate ==
  \/ Connect
  \/ \E s \in Sock : Disconnect(s)
  \/ \E s \in Sock, a \in RegistryAccts :
       nextKey <= MaxRateKeys /\ RegisterRole(s, "driver", a)
  \/ \E s \in Sock, d \in LocR(RegistryAccts) : UpdateLocation(s, d)
  \/ Advance(RateStep)
  \/ nextCleanup <= StartTime + MaxRateSweeps * CLEANUP_INTERVAL /\ TimerTick

SpecRate == Init /\ [][NextRate]_vars

\* ------------------------------------------------------------ SpecWaiting: waiting passengers
\* Users and drivers register, drivers report positions, users send valid and
\* invalid pings, with and without a userAccountId in the payload, connections
\* close and are replaced; within one cleanup interval.
MaxWaitingKeys == 2    \* registrations in a run of SpecWaiting

\* valid pings, in the sender's name or in the name of account MaxAccts, and
\* pings for driver 1 without driver id, without or with an out-of-range
\* position, and with a passenger count of 0 or above the maximum
PingW(A) ==
  [driverAccountId : A, lat : {Pos}, lng : {Pos}, passengerCount : {Undef},
   userAccountId : {NoAcct, MaxAccts}]
  \cup [driverAccountId : {NoAcct}, lat : {Pos}, lng : {Pos}, passengerCount : {Undef},
        userAccountId : {NoAcct}]
  \cup [driverAccountId : {1}, lat : {Undef, 90000000 + Pos}, lng : {Pos},
        passengerCount : {Undef}, userAccountId : {NoAcct}]
  \cup [driverAccountId : {1}, lat : {Pos}, lng : {Undef, 180000000 + Pos},
        passengerCount : {Undef}, userAccountId : {NoAcct}]
  \cup [driverAccountId : {1}, lat : {Pos}, lng : {Pos},
        passengerCount : {0, CountUnit * (MAX_BOARDING_PASSENGERS + 1)},
        userAccountId : {NoAcct}]

NextWaiting ==
  \/ Connect
  \/ \E s \in Sock : Disconnect(s)
  \/ \E s \in Sock, r \in {"user", "driver"}, a \in Acct :
       nextKey <= MaxWaitingKeys /\ RegisterRole(s, r, a)
  \/ \E s \in Sock, d \in LocIn(Acct) :
       d.accountId # NoAcct /\ BurstOk(s) /\ UpdateLocation(s, d)
  \/ \E s \in Sock, d \in PingW(Acct) : PingDriver(s, d)

SpecWaiting == Init /\ [][NextWaiting]_vars

\* ------------------------------------------------------------ SpecRoute: routes
\* Drivers send routes with and without a geometry and destination
\* coordinates (a coordinate may be absent, null or a number), change their
\* destination, end their sessions; connections register and close.
MaxRouteKeys == 1      \* registrations in a run of SpecRoute

RouteN(A) ==
  [accountId : A, geometry : {Undef, Null, 1}, destinationLat : {Undef, Null, Pos},
   destinationLng : {Undef, Pos}]

\* a destination other than the one the routes carry
DestN(A) == [accountId : A, destinationLat : {Far}, destinationLng : {Pos}]

NextRoute ==
  \/ Connect
  \/ \E s \in Sock : Disconnect(s)
  \/ \E s \in Sock, r \in {"user", "driver"}, a \in RegistryAccts :
       nextKey <= MaxRouteKeys /\ RegisterRole(s, r, a)
  \/ \E s \in Sock, d \in RouteN(RegistryAccts) : RouteUpdate(s, d)
  \/ \E s \in Sock, d \in DestN(RegistryAccts) : DestinationUpdate(s, d)
  \/ \E s \in Sock : EndSession(s)

SpecRoute == Init /\ [][NextRoute]_vars

\* ------------------------------------------------------------ SpecSnapshot: snapshots
\* A driver account reports positions (a zero latitude among them) and
\* routes, users register and resume, any connection asks for the current
\* data and for the drivers' data, connections close and are replaced.
MaxSnapshotKeys == 2   \* registrations in a run of SpecSnapshot

LocS(A) ==
  [accountId : A, lat : {0, Pos}, lng : {Pos}, passengerCount : {Pax},
   maxCapacity : {Undef}, destinationLat : {Undef}, destinationLng : {Undef}]

NextSnapshot ==
  \/ Connect
  \/ \E s \in Sock : Disconnect(s)
  \/ \E s \in Sock, a \in Acct :
       nextKey <= MaxSnapshotKeys /\ RegisterRole(s, "user", a)
  \/ \E s \in Sock, k \in 1..MaxSnapshotKeys : ResumeSession(s, k)
  \/ \E s \in Sock, d \in LocS(RegistryAccts) : BurstOk(s) /\ UpdateLocation(s, d)
  \/ \E s \in Sock, d \in RouteF(RegistryAccts) : RouteUpdate(s, d)
  \/ \E s \in Sock : RequestDriversData(s)
  \/ \E s \in Sock : RequestCurrentData(s)

SpecSnapshot == Init /\ [][NextSnapshot]_vars

\* ------------------------------------------------------------ observations
Live(s) == s \in Sock /\ conn[s] \in {"open", "closing"}

\* the connections the three account-keyed tables name for account a
BoundTo(a) ==
  {s \in Sock : \/ (a \in DOMAIN drivers /\ drivers[a].socketId = s)
                \/ (a \in DOMAIN users /\ users[a].socketId = s)
                \/ Get(accountIdToSocketId, a) = s}

\* the event name of an accepted client event
Ev(x) == IF x = None THEN "none" ELSE x[1]

\* messages of the last step with event name ev
Sent(ev) == {i \in 1..Len(out) : out[i].ev = ev}

\* the step sent one message, an error, to connection s only
OnlyErrorTo(s) ==
  /\ Len(out') = 1
  /\ out'[1].ev = "error"
  /\ out'[1].to = {s}

\* the account and session indexes are as they were
IndexesUnchanged ==
  /\ socketToAccountId' = socketToAccountId
  /\ accountIdToSocketId' = accountIdToSocketId
  /\ sessionKeyToSocketId' = sessionKeyToSocketId
  /\ socketIdToSessionKey' = socketIdToSessionKey
  /\ sessions' = sessions

\* ------------------------------------------------------------ C1
\* C1: at every moment each account id is bound to at most one live connection
\* across the driver registry, the user registry and the account -> connection
\* index.
C1_OneLiveConnectionPerAccount ==
  \A a \in Acct : Cardinality({s \in BoundTo(a) : Live(s)}) <= 1

\* ------------------------------------------------------------ C2
\* the connections named anywhere in the account, session and rate-limit indexes
Indexed(s2a, a2s, k2s, s2k, rate) ==
  DOMAIN s2a \cup {a2s[a] : a \in DOMAIN a2s} \cup {k2s[k] : k \in DOMAIN k2s}
    \cup DOMAIN s2k \cup DOMAIN rate

\* C2: when registerRole for account a is carried out on connection B while a
\* is bound to a different live connection A, A is sent connectionReplaced
\* before B is answered, A is closed, at the end of the step the account index
\* maps a to B and A appears in none of the account, session and rate-limit
\* indexes; the updateLocation B sends next for a is broadcast.
C2_RegisterPreemptsIncumbent ==
  [][\A a \in Acct, A \in Sock, B \in Sock :
       /\ (/\ A # B
           /\ Get(accountIdToSocketId, a) = A
           /\ Live(A)
           /\ accepted' = <<"registerRole", B, a>>)
          => /\ \E i \in 1..Len(out'), j \in 1..Len(out') :
                  /\ i < j
                  /\ out'[i].ev = "connectionReplaced" /\ out'[i].to = {A}
                  /\ out'[j].ev = "sessionAssigned" /\ out'[j].to = {B}
             /\ conn'[A] = "closed"
             /\ Get(accountIdToSocketId', a) = B
             /\ A \notin Indexed(socketToAccountId', accountIdToSocketId',
                                 sessionKeyToSocketId', socketIdToSessionKey',
                                 rateLimitMap')
       /\ (accepted = <<"registerRole", B, a>> /\ accepted' = <<"updateLocation", B, a>>)
          => \E i \in 1..Len(out') : out'[i].ev = "locationUpdate" /\ out'[i].acct = a
    ]_vars

\* ------------------------------------------------------------ C3
\* C3: a pingDriver carried out for driver d sends one pingReceived, to exactly
\* one connection, the connection the record of d names; that connection is not
\* in the user role and is not the connection of another driver.
C3_PingReachesOnlyTheDriver ==
  [][\A d \in Acct :
       (Ev(accepted') = "pingDriver" /\ accepted'[3] = d)
         => /\ Cardinality(Sent("pingReceived")') = 1
            /\ \A i \in Sent("pingReceived")' :
                 /\ out'[i].to = {drivers'[d].socketId}
                 /\ \A x \in out'[i].to :
                      /\ role'[x] # "user"
                      /\ \A e \in DOMAIN drivers' \ {d} : drivers'[e].socketId # x
    ]_vars

\* ------------------------------------------------------------ C4
\* C4: every step that deletes a driver record fans out a driverRemoved that
\* carries the record's account id.
C4_DeletionIsAnnounced ==
  [][\A a \in Acct :
       (a \in DOMAIN drivers /\ a \notin DOMAIN drivers')
         => \E i \in Sent("driverRemoved")' : out'[i].acct = a
    ]_vars

DriverBroadcasts == {"locationUpdate", "routeUpdate", "destinationUpdate", "passengerUpdate"}

\* C5: after endSession for driver a has been carried out, no locationUpdate,
\* routeUpdate, destinationUpdate or passengerUpdate broadcast carries a before
\* a connection has registered or resumed as a again; in particular the step
\* that follows the endSession (a registration would take that step) broadcasts
\* nothing that carries a.
C5_SilentAfterEndSession ==
  [][\A a \in Acct :
       (Ev(accepted) = "endSession" /\ accepted[3] = a)
         => \A i \in 1..Len(out') :
              out'[i].ev \in DriverBroadcasts => out'[i].acct # a
    ]_vars

C7_RestorationGate ==
  [][\A a \in Acct :
       LET restored == {i \in 1..Len(out') : /\ out'[i].ev = "driverStateRestored"
                                             /\ out'[i].acct = a}
       IN /\ Ev(accepted') \in {"registerRole", "resumeSession"} => restored = {}
          /\ (a \notin pendingStateRestore /\ a \in pendingStateRestore')
               => /\ Ev(accepted') \in {"registerRole", "resumeSession"}
                  /\ accepted'[3] = a
                  /\ a \in DOMAIN drivers
          /\ a \notin pendingStateRestore => restored = {}
          /\ (/\ a \in pendingStateRestore
              /\ Ev(accepted') \in {"updateLocation", "passengerUpdate"}
              /\ accepted'[3] = a)
               => /\ Cardinality(restored) = 1
                  /\ \A i \in restored :
                       /\ out'[i].to = {accepted'[2]}
                       /\ drivers'[a].socketId = accepted'[2]
                       /\ out'[i].pc = drivers'[a].passengerCount
                       /\ out'[i].mc = drivers'[a].maxCapacity
                  /\ a \notin pendingStateRestore'
    ]_vars

\* a driver that resumed or re-registered has sent its first update, which
\* changed the passenger count, and was sent the merged state
C7_Witness ==
  \E a \in Acct, i \in 1..Len(out) :
    /\ Ev(accepted) \in {"updateLocation", "passengerUpdate"} /\ accepted[3] = a
    /\ out[i].ev = "driverStateRestored" /\ out[i].acct = a /\ out[i].pc = Pax
    /\ a \notin pendingStateRestore

\* ------------------------------------------------------------ C8
\* C8: every step that takes a driver record from DisconnectedInGrace to Live
\* raises its reconnectAttempts by exactly one and broadcasts no driverRemoved.
C8_ReconnectCounted ==
  [][\A a \in Acct :
       (/\ a \in DOMAIN drivers /\ drivers[a].disconnected
        /\ a \in DOMAIN drivers' /\ ~drivers'[a].disconnected)
         => /\ drivers'[a].reconnectAttempts = drivers[a].reconnectAttempts + 1
            /\ Sent("driverRemoved")' = {}
    ]_vars

\* ------------------------------------------------------------ C9
\* a record the sweep at instant t finds within its grace window: disconnected
\* for at most the grace period, or named with a connection that is gone, which
\* the sweep moves into grace at t
InGrace(rec, t) ==
  \/ rec.disconnected /\ t - rec.disconnectedAt <= DISCONNECT_GRACE_PERIOD
  \/ ~rec.disconnected /\ rec.socketId # NoSock /\ ~Live(rec.socketId)

\* C9: a sweep deletes no driver or user record that is within its grace
\* window, the records the same sweep moves into grace included; a disconnected
\* driver it deletes has been disconnected for more than the grace period and
\* not updated for more than the stale timeout.
C9_ReaperHonoursGrace ==
  [][nextCleanup' # nextCleanup
       => /\ \A a \in DOMAIN drivers \ DOMAIN drivers' :
               /\ ~InGrace(drivers[a], now')
               /\ drivers[a].disconnected
                    => /\ now' - drivers[a].disconnectedAt > DISCONNECT_GRACE_PERIOD
                       /\ now' - drivers[a].lastUpdated > STALE_DRIVER_TIMEOUT
          /\ \A a \in DOMAIN users \ DOMAIN users' : ~InGrace(users[a], now')
    ]_vars

\* ------------------------------------------------------------ C10
\* C10: every driver record marked disconnected names no connection and has a
\* disconnect time.
C10_DisconnectedHasNoConnection ==
  \A a \in DOMAIN drivers :
    drivers[a].disconnected
      => drivers[a].socketId = NoSock /\ drivers[a].disconnectedAt # Undef

\* one connection served two driver records; its disconnect marked one of
\* them and a later sweep, finding the connection gone, marked the other
C10_Witness ==
  /\ Cardinality({s \in Sock : conn[s] # "new"}) = 1
  /\ \E a \in DOMAIN drivers, b \in DOMAIN drivers :
       /\ drivers[a].disconnected /\ drivers[b].disconnected
       /\ drivers[a].disconnectedAt < drivers[b].disconnectedAt
       /\ drivers[b].disconnectedAt = now

\* ------------------------------------------------------------ C11
\* the broadcast anchors of a record: position and time of the last broadcast
Anchors(rec) == <<rec.lastLat, rec.lastLng, rec.lastBroadcastTime>>

\* the locationUpdate broadcasts of the step for account a
LocationBroadcasts(a) ==
  {i \in 1..Len(out) : out[i].ev = "locationUpdate" /\ out[i].acct = a}

\* C11: the broadcast anchors of a driver record change (or are first set)
\* only in a step that broadcasts a locationUpdate for that driver, and after
\* such a step they are the broadcast's position and the time of the step; an
\* updateLocation that is not broadcast, a destinationUpdate, routeUpdate,
\* passengerUpdate, disconnect, registration and replacement leave them as
\* they were.
C11_AnchorsMoveOnlyOnBroadcast ==
  [][\A a \in Acct :
       a \in DOMAIN drivers'
         => /\ Anchors(drivers'[a]) # Anchors(prevDriver(State, a))
                 => LocationBroadcasts(a)' # {}
            /\ \A i \in LocationBroadcasts(a)' :
                 Anchors(drivers'[a]) = <<out'[i].lat, out'[i].lng, now'>>
            /\ Ev(accepted') # "updateLocation"
                 => Anchors(drivers'[a]) = Anchors(prevDriver(State, a))
    ]_vars

\* an updateLocation moved the stored position within the threshold of the
\* anchor, later than the last broadcast, and was not broadcast
C11_Witness ==
  \E a \in Acct :
    /\ Ev(accepted) = "updateLocation" /\ accepted[3] = a
    /\ LocationBroadcasts(a) = {}
    /\ drivers[a].lat # drivers[a].lastLat
    /\ drivers[a].lastBroadcastTime < drivers[a].lastUpdated

\* ------------------------------------------------------------ C12
\* C12: an accepted updateLocation for a driver with a prior broadcast at t0,
\* whose position is the anchor's and whose passengerCount and maxCapacity are
\* the stored ones, is broadcast if and only if now - t0 >= the heartbeat
\* interval.
C12_HeartbeatWhileStationary ==
  [][\A s \in Sock, d \in LocF(Acct) :
       LET a == d.accountId
       IN (/\ accepted' = <<"updateLocation", s, a>>
           /\ a \in DOMAIN drivers
           /\ drivers[a].lastBroadcastTime # Undef
           /\ d.lat = drivers[a].lastLat /\ d.lng = drivers[a].lastLng
           /\ d.passengerCount = drivers[a].passengerCount
           /\ d.maxCapacity = drivers[a].maxCapacity
           /\ UpdateLocation(s, d))
            => (LocationBroadcasts(a)' # {}
                  <=> now - drivers[a].lastBroadcastTime >= LOCATION_UPDATE_INTERVAL)
    ]_vars

\* ------------------------------------------------------------ C13
\* the planar distance between two positions exceeds the movement threshold
Moved(lat1, lng1, lat2, lng2) ==
  (lat1 - lat2) * (lat1 - lat2) + (lng1 - lng2) * (lng1 - lng2)
    > LOCATION_CHANGE_THRESHOLD * LOCATION_CHANGE_THRESHOLD

\* C13: an accepted updateLocation whose passengerCount and maxCapacity are the
\* stored ones and which arrives less than the heartbeat interval after the
\* last broadcast is broadcast if and only if its distance from the anchor
\* exceeds the movement threshold, a zero latitude or longitude included; when
\* it is not broadcast the stored position and lastUpdated are still updated.
C13_MovementThreshold ==
  [][\A s \in Sock, d \in LocF(Acct) :
       LET a == d.accountId
       IN (/\ accepted' = <<"updateLocation", s, a>>
           /\ a \in DOMAIN drivers
           /\ drivers[a].lastBroadcastTime # Undef
           /\ drivers[a].lastLat # Undef /\ drivers[a].lastLng # Undef
           /\ d.passengerCount = drivers[a].passengerCount
           /\ d.maxCapacity = drivers[a].maxCapacity
           /\ now - drivers[a].lastBroadcastTime < LOCATION_UPDATE_INTERVAL
           /\ UpdateLocation(s, d))
            => /\ LocationBroadcasts(a)' # {}
                    <=> Moved(d.lat, d.lng, drivers[a].lastLat, drivers[a].lastLng)
               /\ LocationBroadcasts(a)' = {}
                    => /\ drivers'[a].lat = d.lat
                       /\ drivers'[a].lng = d.lng
                       /\ drivers'[a].lastUpdated = now'
    ]_vars

\* ------------------------------------------------------------ C20
\* the passengerUpdate broadcasts of the step for account a
PassengerBroadcasts(a) ==
  {i \in 1..Len(out) : out[i].ev = "passengerUpdate" /\ out[i].acct = a}

\* the payload d supplies no value that differs from the stored record of its
\* account, as an identical replay of the update just carried out does
Replays(d) ==
  /\ d.accountId \in DOMAIN drivers
  /\ d.passengerCount \in {Undef, drivers[d.accountId].passengerCount}
  /\ d.maxCapacity \in {Undef, drivers[d.accountId].maxCapacity}

\* C20 as stated: of two identical passengerUpdate messages sent in
\* succession, whatever the driver state and the payload, the first is
\* broadcast once and the replay is not broadcast and refreshes lastUpdated.
C20_ReplayBroadcastOnce ==
  [][\A s \in Sock, d \in PassF(Acct) :
       LET a == d.accountId
       IN (accepted' = <<"passengerUpdate", s, a>> /\ PassengerUpdate(s, d))
            => IF accepted = <<"passengerUpdate", s, a>> /\ Replays(d)
               THEN /\ PassengerBroadcasts(a)' = {}
                    /\ drivers'[a].lastUpdated = now'
               ELSE Cardinality(PassengerBroadcasts(a)') = 1
    ]_vars

\* C20, amended: a passengerUpdate is broadcast, once and with the merged
\* values, exactly when it changes the stored passengerCount or maxCapacity
\* (a missing value counts as 0); so of two identical messages sent in
\* succession the first is broadcast only if it changes a value and the replay
\* never is; both store the merged values and refresh lastUpdated.
C20_BroadcastOnChangeOnly ==
  [][\A s \in Sock, d \in PassF(Acct) :
       LET a == d.accountId
           prev == prevDriver(State, a)
       IN (accepted' = <<"passengerUpdate", s, a>> /\ PassengerUpdate(s, d))
            => /\ drivers'[a].passengerCount
                    = Nullish(Nullish(d.passengerCount, prev.passengerCount), 0)
               /\ drivers'[a].maxCapacity
                    = Nullish(Nullish(d.maxCapacity, prev.maxCapacity), 0)
               /\ drivers'[a].lastUpdated = now'
               /\ IF \/ drivers'[a].passengerCount # Nullish(prev.passengerCount, 0)
                     \/ drivers'[a].maxCapacity # Nullish(prev.maxCapacity, 0)
                  THEN /\ Cardinality(PassengerBroadcasts(a)') = 1
                       /\ \A i \in PassengerBroadcasts(a)' :
                            /\ out'[i].pc = drivers'[a].passengerCount
                            /\ out'[i].mc = drivers'[a].maxCapacity
                  ELSE PassengerBroadcasts(a)' = {}
               /\ Replays(d) => PassengerBroadcasts(a)' = {}
    ]_vars

\* a passengerUpdate that supplied the stored count was carried out some time
\* after the record's last broadcast: nothing was broadcast, lastUpdated moved
C20_Witness ==
  \E a \in Acct :
    /\ Ev(accepted) = "passengerUpdate" /\ accepted[3] = a
    /\ PassengerBroadcasts(a) = {}
    /\ drivers[a].passengerCount = Pax + 1
    /\ drivers[a].lastUpdated = now
    /\ drivers[a].lastBroadcastTime # Undef
    /\ drivers[a].lastBroadcastTime < now

\* ------------------------------------------------------------ C14
\* C14: a valid updateLocation on a connection whose window is open (less than
\* one window length has passed since the update that opened it) is accepted
\* and counted while fewer than maxUpdatesPerMinute were counted, and is
\* otherwise rejected with an error to the sender, the bucket staying as it
\* was; a valid updateLocation on a connection without a bucket, or arriving
\* one window length or more after the update that opened the window, is
\* accepted and opens a new window; the count never exceeds the maximum.
C14_RateWindow ==
  [][\A s \in Sock, d \in LocR(Acct) :
       LET a == d.accountId
           open == s \in DOMAIN rateLimitMap /\ now < rateLimitMap[s].resetTime
       IN (conn[s] = "open" /\ validateLocationData(d) /\ UpdateLocation(s, d))
            => /\ rateLimitMap'[s].count <= MAX_LOCATION_UPDATES_PER_MINUTE
               /\ IF ~open
                  THEN /\ accepted' = <<"updateLocation", s, a>>
                       /\ rateLimitMap'[s] = [count |-> 1, resetTime |-> now + RATE_WINDOW]
                  ELSE IF rateLimitMap[s].count < MAX_LOCATION_UPDATES_PER_MINUTE
                  THEN /\ accepted' = <<"updateLocation", s, a>>
                       /\ rateLimitMap'[s] = [rateLimitMap[s] EXCEPT !.count = @ + 1]
                  ELSE /\ accepted' = None
                       /\ OnlyErrorTo(s)
                       /\ rateLimitMap'[s] = rateLimitMap[s]
    ]_vars

\* ------------------------------------------------------------ C15
\* C15: an updateLocation that fails validation is not carried out; an
\* updateLocation that is not carried out (validation or rate gate) sends one
\* error, to the sender only, hence no broadcast and no driverStateRestored,
\* and leaves the driver table, the user table, the indexes, the restoration
\* marks and every rate-gate bucket as they were.
C15_RejectedUpdateChangesNothing ==
  [][\A s \in Sock, d \in LocR(Acct) :
       (conn[s] = "open" /\ UpdateLocation(s, d))
         => /\ ~validateLocationData(d) => accepted' = None
            /\ accepted' = None
                 => /\ OnlyErrorTo(s)
                    /\ drivers' = drivers /\ users' = users
                    /\ IndexesUnchanged
                    /\ pendingStateRestore' = pendingStateRestore
                    /\ rateLimitMap' = rateLimitMap
    ]_vars

\* a connection that has used up its window was refused
C15_Witness ==
  \E s \in Sock :
    /\ accepted = None
    /\ Len(out) = 1 /\ out[1].ev = "error" /\ out[1].to = {s}
    /\ s \in DOMAIN rateLimitMap
    /\ rateLimitMap[s].count = MAX_LOCATION_UPDATES_PER_MINUTE
    /\ now <= rateLimitMap[s].resetTime
    /\ DOMAIN drivers # {}

\* ------------------------------------------------------------ C16
\* C16: an updateLocation, destinationUpdate, routeUpdate or passengerUpdate
\* sent by a connection whose role is not driver is answered with an error to
\* the sender only and leaves the driver table, the indexes and the
\* restoration marks as they were; an endSession from such a connection
\* changes no table and sends nothing.
C16_DriverEventsNeedDriverRole ==
  [][\A s \in Sock :
       role[s] # "driver"
         => /\ (\/ \E d \in LocIn(Acct) : UpdateLocation(s, d)
                \/ \E d \in DestIn(Acct) : DestinationUpdate(s, d)
                \/ \E d \in RouteIn(Acct) : RouteUpdate(s, d)
                \/ \E d \in PassIn(Acct) : PassengerUpdate(s, d))
                 => /\ OnlyErrorTo(s)
                    /\ drivers' = drivers
                    /\ pendingStateRestore' = pendingStateRestore
                    /\ IndexesUnchanged
            /\ EndSession(s)
                 => /\ out' = <<>>
                    /\ drivers' = drivers /\ users' = users
                    /\ IndexesUnchanged
    ]_vars

\* ------------------------------------------------------------ C17
\* the ping d sent on connection s is one the server must refuse: the sender
\* is not in the user role, the driver id, the position or the passenger count
\* is invalid, the driver is unknown, has no bound connection, is in its grace
\* period or its transport is not live
PingRefused(s, d) ==
  \/ role[s] # "user"
  \/ d.driverAccountId = NoAcct
  \/ d.lat = Undef \/ d.lng = Undef
  \/ Abs(d.lat) > 90000000 \/ Abs(d.lng) > 180000000
  \/ countGiven(d)
       /\ (floorAbs(d.passengerCount) < 1
             \/ floorAbs(d.passengerCount) > MAX_BOARDING_PASSENGERS)
  \/ d.driverAccountId \notin DOMAIN drivers
  \/ Get(accountIdToSocketId, d.driverAccountId) = NoSock
  \/ ~Live(Get(accountIdToSocketId, d.driverAccountId))
  \/ drivers[d.driverAccountId].disconnected

\* C17: a pingDriver that must be refused is not carried out, sends one error,
\* to the sender only, hence pingReceived to nobody, and leaves the driver
\* table (every waitingPassengers with it), the user table and the indexes as
\* they were.
C17_RefusedPingChangesNothing ==
  [][\A s \in Sock, d \in PingW(Acct) :
       (conn[s] = "open" /\ PingRefused(s, d))
         => \/ /\ accepted' = None
               /\ OnlyErrorTo(s)
               /\ drivers' = drivers /\ users' = users
               /\ IndexesUnchanged
            \/ ~PingDriver(s, d)
    ]_vars

\* a user was refused while a driver that holds a waiting passenger is in its
\* grace period
C17_Witness ==
  \E s \in Sock, a \in DOMAIN drivers :
    /\ accepted = None
    /\ Len(out) = 1 /\ out[1].ev = "error" /\ out[1].to = {s}
    /\ role[s] = "user"
    /\ drivers[a].disconnected
    /\ DOMAIN drivers[a].waitingPassengers # {}

\* ------------------------------------------------------------ C18
\* C18: when the connection of a registered user closes in the step after its
\* pingDriver for driver d, registered on another connection, was carried out,
\* the waitingPassengers entry that ping created
\* (the one named in the pingReceived) is gone from d's record after the step,
\* and if d is live its connection is sent pingRemoved for that entry.
C18_DisconnectDropsPings ==
  [][\A s \in Sock, d \in Acct :
       (/\ accepted = <<"pingDriver", s, d>>
        /\ role[s] = "user" /\ Live(s) /\ conn'[s] = "closed"
        /\ drivers[d].socketId \in Sock \ {s}
        /\ role[drivers[d].socketId] = "driver"
        /\ Get(socketToAccountId, drivers[d].socketId) = d
        /\ Get(socketToAccountId, s) \notin {NoAcct, d}
        /\ Get(accountIdToSocketId, Get(socketToAccountId, s)) = s)
         => \A i \in Sent("pingReceived") :
              d \in DOMAIN drivers'
                => /\ out[i].acct \notin DOMAIN drivers'[d].waitingPassengers
                   /\ (/\ drivers'[d].socketId \in Sock
                       /\ conn'[drivers'[d].socketId] = "open"
                       /\ ~drivers'[d].disconnected)
                        => \E j \in 1..Len(out') :
                             /\ out'[j].ev = "pingRemoved"
                             /\ out'[j].acct = out[i].acct
                             /\ out'[j].to = {drivers'[d].socketId}
    ]_vars

\* ------------------------------------------------------------ C19
\* C19: after an unpingDriver from a connection in the user role that names an
\* existing driver d has been processed, d's waitingPassengers holds no entry
\* for the user, whether d is live or in its grace period; when d's connection
\* is live and d is not in grace, one pingRemoved for the user is sent, to d's
\* connection only.
C19_UnpingRemovesEntry ==
  [][\A s \in Sock, d \in UnpingIn(Acct) :
       (/\ UnpingDriver(s, d)
        /\ role[s] = "user"
        /\ d.driverAccountId \in DOMAIN drivers)
         => LET a == d.driverAccountId
                u == Effective(State, s, d.userAccountId)
            IN /\ u \notin DOMAIN drivers'[a].waitingPassengers
               /\ (Live(drivers[a].socketId) /\ ~drivers[a].disconnected)
                    => /\ Cardinality(Sent("pingRemoved")') = 1
                       /\ \A i \in Sent("pingRemoved")' :
                            /\ out'[i].acct = u
                            /\ out'[i].to = {drivers[a].socketId}
    ]_vars

\* ------------------------------------------------------------ C21
\* the routeUpdate broadcasts of the step for account a
RouteBroadcasts(a) ==
  {i \in 1..Len(out) : out[i].ev = "routeUpdate" /\ out[i].acct = a}

\* the payload d is the one whose processing left the stored geometry and
\* destination: the same geometry, and for each destination coordinate either
\* the stored number or the absent or null value that kept it
RouteReplays(d) ==
  /\ d.accountId \in DOMAIN drivers
  /\ d.geometry = drivers[d.accountId].geometry
  /\ d.destinationLat \in {Undef, Null, drivers[d.accountId].destinationLat}
  /\ d.destinationLng \in {Undef, Null, drivers[d.accountId].destinationLng}

\* C21: a routeUpdate carried out right after a routeUpdate of the same
\* connection for the same driver, with the geometry and destination
\* coordinates that one left, is not broadcast; and a routeUpdate is broadcast
\* only if its geometry or a destination coordinate present in the payload
\* differs from the stored one.
C21_RouteReplaySilent ==
  [][\A s \in Sock, d \in RouteN(Acct) :
       LET a == d.accountId
           prev == prevDriver(State, a)
       IN (accepted' = <<"routeUpdate", s, a>> /\ RouteUpdate(s, d))
            => /\ (accepted = <<"routeUpdate", s, a>> /\ RouteReplays(d))
                    => RouteBroadcasts(a)' = {}
               /\ RouteBroadcasts(a)' # {}
                    => \/ d.geometry # prev.geometry
                       \/ d.destinationLat # Undef /\ d.destinationLat # prev.destinationLat
                       \/ d.destinationLng # Undef /\ d.destinationLng # prev.destinationLng
    ]_vars

\* ------------------------------------------------------------ C22
\* C22: in every state each key k of the session-key index is the key its
\* connection holds (socketIdToSessionKey[sessionKeyToSocketId[k]] = k) and
\* has a session record; the index names no closed connection; and no key is
\* held by two live connections.
C22_SessionIndexesAgree ==
  /\ \A k \in DOMAIN sessionKeyToSocketId :
       /\ Get(socketIdToSessionKey, sessionKeyToSocketId[k]) = k
       /\ k \in DOMAIN sessions
       /\ conn[sessionKeyToSocketId[k]] # "closed"
  /\ \A s \in Sock, x \in Sock :
       (/\ s # x /\ Live(s) /\ Live(x)
        /\ s \in DOMAIN socketIdToSessionKey /\ x \in DOMAIN socketIdToSessionKey)
         => socketIdToSessionKey[s] # socketIdToSessionKey[x]

\* ------------------------------------------------------------ C23
\* the replies of the last step that list the drivers for a user: the
\* driversSnapshot of a registration, a resumption and requestCurrentData, and
\* the driversData of requestDriversData
SnapshotReplies ==
  {i \in 1..Len(out) : out[i].ev \in {"driversSnapshot", "driversData"}}

\* the record has a position (a coordinate of 0 is a position)
HasPosition(rec) == rec.lat \notin {Undef, Null} /\ rec.lng \notin {Undef, Null}

\* the record has a position or a route geometry
Qualifies(rec) == HasPosition(rec) \/ rec.geometry \notin {Undef, Null}

\* the accounts a reply lists
ListedAccounts(body) == {body.drivers[i].accountId : i \in 1..Len(body.drivers)}

\* C23: every snapshot reply lists at most maxSnapshotDrivers drivers and
\* carries count, total and limited; count is the length of the list and total
\* the number of qualifying drivers; when total exceeds maxSnapshotDrivers,
\* count = maxSnapshotDrivers, limited = true and no driver left out was
\* updated later than a listed one; otherwise limited = false and count =
\* total.
C23_SnapshotLimit ==
  \A i \in SnapshotReplies :
    LET body == out[i].body
        qualifying == {a \in DOMAIN drivers : Qualifies(drivers[a])}
    IN /\ Len(body.drivers) <= MAX_SNAPSHOT_DRIVERS
       /\ {"count", "total", "limited"} \subseteq DOMAIN body
       /\ body.count = Len(body.drivers)
       /\ body.total = Cardinality(qualifying)
       /\ IF body.total > MAX_SNAPSHOT_DRIVERS
          THEN /\ body.count = MAX_SNAPSHOT_DRIVERS
               /\ body.limited
               /\ \A a \in ListedAccounts(body), c \in qualifying \ ListedAccounts(body) :
                    drivers[a].lastUpdated >= drivers[c].lastUpdated
          ELSE ~body.limited /\ body.count = body.total

\* ------------------------------------------------------------ C24
\* C24: every snapshot reply lists exactly the drivers that have a position (a
\* zero coordinate included) or a route geometry, those in their grace period
\* and those with a geometry only included, each once and with isOnline = not
\* disconnected.
C24_SnapshotLists ==
  \A i \in SnapshotReplies :
    LET body == out[i].body
    IN /\ ListedAccounts(body) = {a \in DOMAIN drivers : Qualifies(drivers[a])}
       /\ Cardinality(ListedAccounts(body)) = Len(body.drivers)
       /\ \A j \in 1..Len(body.drivers) :
            /\ "isOnline" \in DOMAIN body.drivers[j]
            /\ body.drivers[j].isOnline = ~drivers[body.drivers[j].accountId].disconnected

\* ------------------------------------------------------------ C25
\* the connections the records of the two registries name
Named(ds, us) ==
  {ds[a].socketId : a \in DOMAIN ds} \cup {us[a].socketId : a \in DOMAIN us}

\* the record was left in its grace period: disconnected, with a disconnect
\* time and no connection
LeftInGrace(rec) ==
  rec.disconnected /\ rec.disconnectedAt # Undef /\ rec.socketId = NoSock

\* C25: a closed connection is named by none of the account, session and
\* rate-limit indexes and by no driver or user record; and the step that closes
\* a connection leaves every driver and user record the connection was bound
\* to in its grace period, with disconnectedAt set, unless the same step binds
\* the record to the connection that replaced it.
C25_ClosedConnectionIsForgotten ==
  [][\A s \in Sock :
       conn'[s] = "closed"
         => /\ s \notin Indexed(socketToAccountId', accountIdToSocketId',
                                sessionKeyToSocketId', socketIdToSessionKey',
                                rateLimitMap')
            /\ s \notin Named(drivers', users')
            /\ Live(s)
                 => /\ \A a \in DOMAIN drivers \cap DOMAIN drivers' :
                         drivers[a].socketId = s
                           => \/ LeftInGrace(drivers'[a])
                              \/ drivers'[a].socketId \in Sock \ {s}
                    /\ \A a \in DOMAIN users \cap DOMAIN users' :
                         users[a].socketId = s
                           => \/ LeftInGrace(users'[a])
                              \/ users'[a].socketId \in Sock \ {s}
    ]_vars

\* ------------------------------------------------------------ SpecEnd: ending sessions
\* Drivers register, report positions and end their sessions, connections
\* close, and the 60 s timers fire.
MaxEndKeys == 2        \* registrations in a run of SpecEnd

LocE(A) ==
  [accountId : A, lat : {Pos}, lng : {Pos}, passengerCount : {Pax},
   maxCapacity : {Undef}, destinationLat : {Undef}, destinationLng : {Undef}]

NextEnd ==
  \/ Connect
  \/ \E s \in Sock : Disconnect(s)
  \/ \E s \in Sock, a \in RegistryAccts :
       nextKey <= MaxEndKeys /\ RegisterRole(s, "driver", a)
  \/ \E s \in Sock, d \in LocE(RegistryAccts) : BurstOk(s) /\ UpdateLocation(s, d)
  \/ \E s \in Sock : EndSession(s)
  \/ TimerTick

SpecEnd == Init /\ [][NextEnd]_vars

\* ------------------------------------------------------------ C26
\* the tables of the server
Tables(S) ==
  <<S.drivers, S.users, S.s2a, S.a2s, S.k2s, S.s2k, S.sessions, S.rate, S.pending>>

\* both 60 s callbacks, run at the instant S.now
Sweep(S) == sweepRateLimits(cleanupStaleUsers(cleanupStaleDrivers(S)))

\* C26: an endSession that is carried out removes the record of its driver,
\* which leaves the sender without a record to remove; an endSession on a
\* connection whose account has no driver record (a second endSession, or one
\* after the reaper deleted the record) changes no table and sends nothing; a
\* sweep creates no driver record, sends no driverRemoved and, run again at the
\* same instant, changes nothing.
C26_EndSessionAndReaperIdempotent ==
  [][/\ \A s \in Sock, a \in Acct :
          accepted' = <<"endSession", s, a>>
            => /\ a \notin DOMAIN drivers'
               /\ Get(socketToAccountId', s) \notin DOMAIN drivers'
     /\ \A s \in Sock :
          (/\ conn[s] = "open"
           /\ Get(socketToAccountId, s) \notin DOMAIN drivers
           /\ EndSession(s))
            => /\ Tables(State)' = Tables(State)
               /\ out' = <<>>
     /\ nextCleanup' # nextCleanup
          => /\ DOMAIN drivers' \subseteq DOMAIN drivers
             /\ Sent("driverRemoved")' = {}
             /\ (Tables(Sweep(State)) = Tables(State))'
    ]_vars

\* after the timers have fired a driver ended its session: its record is
\* gone and its connection, still open in the driver role, may send endSession
\* again
C26_Witness ==
  \E s \in Sock, a \in Acct :
    /\ accepted = <<"endSession", s, a>>
    /\ now > StartTime
    /\ a \notin DOMAIN drivers
    /\ conn[s] = "open" /\ role[s] = "driver"

\* ------------------------------------------------------------ C27
\* the connections that were sent connectionReplaced in the last step
Replaced == UNION {out[i].to : i \in {j \in 1..Len(out) : out[j].ev = "connectionReplaced"}}

\* C27: connectionReplaced is sent only while a message of an open connection
\* is handled, never to that connection, which stays open, and every
\* connection it is sent to is closed; closing an incumbent that is absent or
\* not connected sends nothing, closes nothing and changes no table.
C27_PreemptionSparesTheSender ==
  /\ Replaced # {}
       => /\ accepted # None
          /\ accepted[2] \notin Replaced
          /\ Live(accepted[2])
          /\ \A t \in Replaced : ~Live(t)
  /\ \A o \in Sock \cup {NoSock} :
       ~Live(o) => disconnectOldSocket(State, o) = State

\* a connection took over from a live incumbent, which is now closed
C27_Witness ==
  /\ Replaced # {}
  /\ accepted # None
  /\ Live(accepted[2])
  /\ \E o \in Replaced : conn[o] = "closed"

\* ------------------------------------------------------------ C28
FanOut == {"locationUpdate", "routeUpdate", "destinationUpdate", "passengerUpdate",
           "driverRemoved"}

\* the live connections whose current role is user
CurrentUsers == {s \in Sock : Live(s) /\ role[s] = "user"}

\* C28: every fan-out broadcast of the last step went to exactly the live
\* connections whose current role is user.
C28_FanOutReachesCurrentUsers ==
  \A i \in 1..Len(out) : out[i].ev \in FanOut => out[i].to = CurrentUsers

\* ------------------------------------------------------------ C29
\* registerRole refuses the message: unknown role, or role user without account id
RegisterRefused(r, a) == r \notin {"user", "driver"} \/ (r = "user" /\ a = NoAcct)

\* C29: a refused registerRole is answered with one error to the sender, and
\* leaves the role and the session key of the connection and every table as
\* they were.
C29_RefusedRegisterRoleAnswered ==
  [][\A s \in Sock, r \in Roles, a \in RegistryAccts \cup {NoAcct} :
       RegisterRefused(r, a)
         => \/ ~RegisterRole(s, r, a)
            \/ /\ OnlyErrorTo(s)
               /\ role'[s] = role[s]
               /\ Get(socketIdToSessionKey', s) = Get(socketIdToSessionKey, s)
               /\ Tables(State)' = Tables(State)
    ]_vars

\* ------------------------------------------------------------ SpecCount: boarding counts
\* Users ping drivers with passenger counts that are absent, null, zero,
\* fractional, negative, and at, inside and outside the limits.
MaxCountKeys == 2      \* registrations in a run of SpecCount

CountsIn ==
  {Undef, Null, 0, CountUnit \div 2, CountUnit, 0 - CountUnit,
   CountUnit + CountUnit \div 2, 0 - (CountUnit + CountUnit \div 2),
   CountUnit * MAX_BOARDING_PASSENGERS, 0 - CountUnit * MAX_BOARDING_PASSENGERS,
   CountUnit * MAX_BOARDING_PASSENGERS + (CountUnit - 1),
   CountUnit * (MAX_BOARDING_PASSENGERS + 1),
   0 - CountUnit * (MAX_BOARDING_PASSENGERS + 1)}

PingC(A) ==
  [driverAccountId : A, lat : {Pos}, lng : {Pos}, passengerCount : CountsIn,
   userAccountId : {NoAcct}]

\* the driver uses account 1, the user the last account
CountRoles == {<<"driver", 1>>, <<"user", MaxAccts>>}

NextCount ==
  \/ Connect
  \/ \E s \in Sock : Disconnect(s)
  \/ \E s \in Sock, ra \in CountRoles :
       nextKey <= MaxCountKeys /\ RegisterRole(s, ra[1], ra[2])
  \/ \E s \in Sock, d \in LocE({1}) : BurstOk(s) /\ UpdateLocation(s, d)
  \/ \E s \in Sock, d \in PingC({1}) : PingDriver(s, d)

SpecCount == Init /\ [][NextCount]_vars

\* ------------------------------------------------------------ C30
\* the whole number k with k <= |x| < k + 1, x in tenths
Whole(x) ==
  CHOOSE k \in 0..(MAX_BOARDING_PASSENGERS + 2) :
    k * CountUnit <= Abs(x) /\ Abs(x) < (k + 1) * CountUnit

\* the count a ping with payload d asks to board
Boarding(d) == IF d.passengerCount \in {Undef, Null} THEN 1 ELSE Whole(d.passengerCount)

\* the waitingPassengers entry and the pingReceived message of the step carry n
CarriesCount(s, d, n) ==
  /\ d.driverAccountId \in DOMAIN drivers'
  /\ Effective(State, s, d.userAccountId)
       \in DOMAIN drivers'[d.driverAccountId].waitingPassengers
  /\ drivers'[d.driverAccountId].waitingPassengers[
       Effective(State, s, d.userAccountId)].passengerCount = n
  /\ \E i \in 1..Len(out') : out'[i].ev = "pingReceived" /\ out'[i].pc = n

\* C30: a pingDriver whose passengerCount is present with floor(|count|)
\* outside 1..20 is refused with one error to the sender and no change of
\* state; every pingDriver that is carried out stores floor(|count|), or 1 when
\* the count is absent, in the waitingPassengers entry and sends the same
\* number in pingReceived.
C30_PingPassengerCount ==
  [][\A s \in Sock, d \in PingC({1}) :
       (conn[s] = "open" /\ role[s] = "user")
         => \/ ~PingDriver(s, d)
            \/ IF Boarding(d) \in 1..MAX_BOARDING_PASSENGERS
               THEN accepted' = None \/ CarriesCount(s, d, Boarding(d))
               ELSE /\ accepted' = None
                    /\ OnlyErrorTo(s)
                    /\ Tables(State)' = Tables(State)
    ]_vars

\* a ping for the upper limit of 20 passengers has been carried out
C30_Witness ==
  /\ Ev(accepted) = "pingDriver"
  /\ \E i \in 1..Len(out) :
       out[i].ev = "pingReceived" /\ out[i].pc = MAX_BOARDING_PASSENGERS

\* ------------------------------------------------------------ C31
\* the record is marked disconnected and its grace period has not run out
StillInGrace(rec) ==
  /\ rec.disconnected
  /\ rec.disconnectedAt # Undef
  /\ now - rec.disconnectedAt <= DISCONNECT_GRACE_PERIOD

\* no index names account a
Unindexed(a) ==
  /\ a \notin DOMAIN accountIdToSocketId
  /\ \A s \in DOMAIN socketToAccountId : socketToAccountId[s] # a

\* C31: right after a sweep every driver record older than the stale timeout
\* is disconnected and within its grace period, likewise every user record,
\* and no index names an account whose record the sweep deleted.
C31_SweepLeavesNoStaleRecord ==
  [][nextCleanup' # nextCleanup
       => /\ \A a \in DOMAIN drivers' :
               now' - drivers'[a].lastUpdated > STALE_DRIVER_TIMEOUT
                 => StillInGrace(drivers[a])'
          /\ \A a \in DOMAIN users' :
               now' - users'[a].lastActivity > STALE_USER_TIMEOUT
                 => StillInGrace(users[a])'
          /\ \A a \in (DOMAIN drivers \ DOMAIN drivers') \cup (DOMAIN users \ DOMAIN users') :
               a \notin DOMAIN drivers' \cup DOMAIN users' => Unindexed(a)'
    ]_vars

\* ------------------------------------------------------------ C32
\* the step is the close of connection s by its transport, not a preemption
TransportClose(s) ==
  /\ conn[s] = "open"
  /\ conn'[s] = "closed"
  /\ Replaced' = {}

\* record new differs from record old in the three connection fields at most
OnlyUnbound(old, new) ==
  new = [old EXCEPT !.disconnected = new.disconnected,
                    !.disconnectedAt = new.disconnectedAt,
                    !.socketId = new.socketId]

\* C32: when the connection a driver record is bound to closes, the step
\* changes that record in disconnected, disconnectedAt and socketId at most,
\* changes no driver record bound to another connection or to none, deletes
\* none and broadcasts no driverRemoved.
C32_DisconnectKeepsDriverData ==
  [][\A s \in Sock, a \in DOMAIN drivers :
       (TransportClose(s) /\ drivers[a].socketId = s)
         => /\ DOMAIN drivers' = DOMAIN drivers
            /\ OnlyUnbound(drivers[a], drivers'[a])
            /\ \A b \in DOMAIN drivers :
                 drivers[b].socketId # s => drivers'[b] = drivers[b]
            /\ Sent("driverRemoved")' = {}
    ]_vars

\* ------------------------------------------------------------ SpecGate: the gate and the other events
\* A driver sends position updates until the rate gate refuses them; every
\* connection sends destinations, routes and passenger counts, pings, unpings
\* and asks for data; all within one rate window.
MaxGateKeys == 2       \* registrations in a run of SpecGate

NextGate ==
  \/ Connect
  \/ \E s \in Sock, ra \in CountRoles :
       nextKey <= MaxGateKeys /\ RegisterRole(s, ra[1], ra[2])
  \/ \E s \in Sock, d \in LocE({1}) : role[s] = "driver" /\ UpdateLocation(s, d)
  \/ \E s \in Sock, d \in DestIn({1}) : DestinationUpdate(s, d)
  \/ \E s \in Sock, d \in RouteIn({1}) : RouteUpdate(s, d)
  \/ \E s \in Sock, d \in PassIn({1}) : PassengerUpdate(s, d)
  \/ \E s \in Sock, d \in PingIn({1}) : PingDriver(s, d)
  \/ \E s \in Sock, d \in UnpingIn({1}) : UnpingDriver(s, d)
  \/ \E s \in Sock : GetBusInfo(s, 1)
  \/ \E s \in Sock : RequestDriversData(s)
  \/ \E s \in Sock : RequestCurrentData(s)

SpecGate == Init /\ [][NextGate]_vars

\* ------------------------------------------------------------ C33
\* the server state with the bucket of connection s removed
Unrated(S, s) == [S EXCEPT !.rate = Del(@, s)]

\* what the server does with each message other than updateLocation that
\* connection s may send, paired with what it does when s has no bucket
OtherEvents(S, s) ==
  {<<destinationUpdate(S, s, d), destinationUpdate(Unrated(S, s), s, d)>> :
     d \in DestIn({1})}
  \cup {<<routeUpdate(S, s, d), routeUpdate(Unrated(S, s), s, d)>> : d \in RouteIn({1})}
  \cup {<<passengerUpdate(S, s, d), passengerUpdate(Unrated(S, s), s, d)>> :
          d \in PassIn({1})}
  \cup {<<pingDriver(S, s, d), pingDriver(Unrated(S, s), s, d)>> : d \in PingIn({1})}
  \cup {<<unpingDriver(S, s, d), unpingDriver(Unrated(S, s), s, d)>> : d \in UnpingIn({1})}
  \cup {<<getBusInfo(S, s, 1), getBusInfo(Unrated(S, s), s, 1)>>,
        <<requestDriversData(S, s), requestDriversData(Unrated(S, s), s)>>,
        <<requestCurrentData(S, s), requestCurrentData(Unrated(S, s), s)>>}

\* connection s has used up its window
Limited(s) ==
  /\ s \in DOMAIN rateLimitMap
  /\ rateLimitMap[s].count >= MAX_LOCATION_UPDATES_PER_MINUTE
  /\ now <= rateLimitMap[s].resetTime

\* C33: whatever message other than updateLocation an open connection sends,
\* handling it creates no rate-gate bucket and changes none, and the server
\* answers, accepts and stores exactly what it would if the connection had no
\* bucket at all.
C33_OnlyUpdateLocationIsGated ==
  \A s \in Sock :
    conn[s] = "open"
      => \A p \in OtherEvents(State, s) :
           /\ \A t \in DOMAIN p[1].rate :
                t \in DOMAIN rateLimitMap /\ p[1].rate[t] = rateLimitMap[t]
           /\ p[1].out = p[2].out
           /\ p[1].accepted = p[2].accepted
           /\ p[1].drivers = p[2].drivers
           /\ p[1].users = p[2].users

\* a connection whose window is used up has had a destinationUpdate accepted
C33_Witness ==
  \E s \in Sock :
    /\ Limited(s)
    /\ Ev(accepted) = "destinationUpdate"
    /\ accepted[2] = s

\* ------------------------------------------------------------ SpecOmit: optional occupancy fields
\* A driver reports positions at and near its anchor, with and without the
\* optional passengerCount and maxCapacity; time passes in thirds of the
\* heartbeat interval.
MaxOmitSteps == 2      \* time steps in a run of SpecOmit
MaxOmitBurst == 3      \* updateLocation messages a connection sends in SpecOmit
MaxOmitKeys == 1       \* registrations in a run of SpecOmit

LocO(A) ==
  [accountId : A, lat : {Pos, Near}, lng : {Pos}, passengerCount : {Undef, Pax},
   maxCapacity : {Undef, Cap}, destinationLat : {Undef}, destinationLng : {Undef}]

NextOmit ==
  \/ Connect
  \/ \E s \in Sock : Disconnect(s)
  \/ \E s \in Sock, a \in RegistryAccts :
       nextKey <= MaxOmitKeys /\ RegisterRole(s, "driver", a)
  \/ \E s \in Sock, d \in LocO(RegistryAccts) :
       /\ s \in DOMAIN rateLimitMap => rateLimitMap[s].count < MaxOmitBurst
       /\ UpdateLocation(s, d)
  \/ now + HeartbeatStep <= StartTime + MaxOmitSteps * HeartbeatStep
       /\ Advance(HeartbeatStep)

SpecOmit == Init /\ [][NextOmit]_vars

\* ------------------------------------------------------------ C34
\* C34: an accepted updateLocation without passengerCount and maxCapacity,
\* within the movement threshold of the anchor and less than the heartbeat
\* interval after the last broadcast, is merged (position and lastUpdated
\* stored) without a locationUpdate broadcast, and the stored passengerCount
\* and maxCapacity stay as they were.
C34_OmittedOccupancyIsNoChange ==
  [][\A s \in Sock, d \in LocO(Acct) :
       LET a == d.accountId
       IN (/\ d.passengerCount = Undef /\ d.maxCapacity = Undef
           /\ accepted' = <<"updateLocation", s, a>>
           /\ a \in DOMAIN drivers
           /\ drivers[a].lastBroadcastTime # Undef
           /\ drivers[a].lastLat # Undef /\ drivers[a].lastLng # Undef
           /\ ~Moved(d.lat, d.lng, drivers[a].lastLat, drivers[a].lastLng)
           /\ now - drivers[a].lastBroadcastTime < LOCATION_UPDATE_INTERVAL
           /\ UpdateLocation(s, d))
            => /\ LocationBroadcasts(a)' = {}
               /\ drivers'[a].lat = d.lat
               /\ drivers'[a].lng = d.lng
               /\ drivers'[a].lastUpdated = now'
               /\ drivers'[a].passengerCount = drivers[a].passengerCount
               /\ drivers'[a].maxCapacity = drivers[a].maxCapacity
    ]_vars

\* ------------------------------------------------------------ C35
\* C35: every account marked for state restoration has a driver record.
C35_PendingHasRecord ==
  pendingStateRestore \subseteq DOMAIN drivers

\* ------------------------------------------------------------ C36
\* connection s is open in role user under a session for account u
UserSession(s, u) ==
  /\ Live(s)
  /\ role[s] = "user"
  /\ Get(socketIdToSessionKey, s) \in DOMAIN sessions
  /\ sessions[socketIdToSessionKey[s]].role = "user"
  /\ sessions[socketIdToSessionKey[s]].accountId = u

\* C36: an open connection that registered or resumed as user u has the user
\* record of u bound to it.
C36_UserRecordBound ==
  \A s \in Sock, u \in Acct :
    UserSession(s, u) => u \in DOMAIN users /\ users[u].socketId = s

\* ------------------------------------------------------------ C37
\* the keys under which the waitingPassengers of driver b differ before and
\* after the step
ChangedWaiting(b) ==
  {k \in DOMAIN drivers[b].waitingPassengers \cup DOMAIN drivers'[b].waitingPassengers :
     \/ k \notin DOMAIN drivers[b].waitingPassengers
     \/ k \notin DOMAIN drivers'[b].waitingPassengers
     \/ drivers'[b].waitingPassengers[k] # drivers[b].waitingPassengers[k]}

\* C37: a pingDriver or unpingDriver that is carried out changes the
\* waitingPassengers entry keyed by the account id bound to the sending
\* connection and no other, and the pingReceived or pingRemoved it sends names
\* that account id.
C37_PingsKeyedBySender ==
  [][\A s \in Sock :
       (Ev(accepted') \in {"pingDriver", "unpingDriver"} /\ accepted'[2] = s)
         => /\ \A b \in DOMAIN drivers \cap DOMAIN drivers' :
                 ChangedWaiting(b) \subseteq {Get(socketToAccountId, s)}
            /\ \A i \in 1..Len(out') :
                 out'[i].ev \in {"pingReceived", "pingRemoved"}
                   => out'[i].acct = Get(socketToAccountId, s)
    ]_vars

\* ------------------------------------------------------------ SpecAllowance: the allowance of a window
\* Drivers register, once more on the same connection too, report positions as
\* fast as they like and end their sessions; time passes in half windows and
\* the 60 s timers fire.
MaxAllowanceKeys == 2    \* registrations in a run of SpecAllowance
MaxAllowanceSweeps == 1  \* firings of the cleanup timer in a run of SpecAllowance

NextAllowance ==
  \/ Connect
  \/ \E s \in Sock : Disconnect(s)
  \/ \E s \in Sock, a \in RegistryAccts :
       nextKey <= MaxAllowanceKeys /\ RegisterRole(s, "driver", a)
  \/ \E s \in Sock, d \in LocE(RegistryAccts) : UpdateLocation(s, d)
  \/ \E s \in Sock : EndSession(s)
  \/ Advance(RateStep)
  \/ nextCleanup <= StartTime + MaxAllowanceSweeps * CLEANUP_INTERVAL /\ TimerTick

SpecAllowance == Init /\ [][NextAllowance]_vars

\* ------------------------------------------------------------ C38
\* connection s stays open over the step and stays inside the window of its
\* bucket
InsideWindow(s) ==
  /\ s \in DOMAIN rateLimitMap
  /\ now' <= rateLimitMap[s].resetTime
  /\ conn[s] = "open" /\ conn'[s] = "open"

\* the bucket of s is kept, and counts one more exactly when the step accepts
\* an updateLocation of s, never beyond the maximum
CountsAccepted(s) ==
  /\ s \in DOMAIN rateLimitMap'
  /\ rateLimitMap'[s].resetTime = rateLimitMap[s].resetTime
  /\ rateLimitMap'[s].count <= MAX_LOCATION_UPDATES_PER_MINUTE
  /\ IF Ev(accepted') = "updateLocation" /\ accepted'[2] = s
     THEN rateLimitMap'[s].count = rateLimitMap[s].count + 1
     ELSE rateLimitMap'[s].count = rateLimitMap[s].count

\* C38 as stated: inside its window the bucket of an open connection is kept
\* and counts its accepted updateLocation messages up to the maximum, so no
\* message, registerRole included, gives the connection a fresh allowance.
C38_NoFreshAllowance ==
  [][\A s \in Sock : InsideWindow(s) => CountsAccepted(s)]_vars

\* C38, amended: inside its window the bucket of an open connection is kept
\* and counts its accepted updateLocation messages up to the maximum, unless
\* the connection sends a registerRole or an endSession that is carried out,
\* which deletes the bucket.
C38_AllowancePerBucket ==
  [][\A s \in Sock :
       InsideWindow(s)
         => \/ CountsAccepted(s)
            \/ /\ Ev(accepted') \in {"registerRole", "endSession"}
               /\ accepted'[2] = s
               /\ s \notin DOMAIN rateLimitMap'
    ]_vars

\* a connection that registered a second time has filled a window
C38_Witness ==
  \E s \in Sock :
    /\ nextKey > MaxAllowanceKeys
    /\ conn[s] = "open"
    /\ s \in DOMAIN rateLimitMap
    /\ rateLimitMap[s].count = MAX_LOCATION_UPDATES_PER_MINUTE
    /\ now <= rateLimitMap[s].resetTime

\* ------------------------------------------------------------ SpecLive: records that fall silent
\* Drivers report positions before the first sweep only; afterwards their
\* connections stay open, close, register again or resume, and the 60 s timers
\* keep firing: setInterval runs the sweep every CLEANUP_INTERVAL, hence the
\* weak fairness of TimerTick.
MaxLiveKeys == 2       \* registrations in a run of SpecLive

NextLive ==
  \/ Connect
  \/ \E s \in Sock : Disconnect(s)
  \/ \E s \in Sock, a \in RegistryAccts :
       nextKey <= MaxLiveKeys /\ RegisterRole(s, "driver", a)
  \/ \E s \in Sock, k \in 1..MaxLiveKeys : ResumeSession(s, k)
  \/ \E s \in Sock, d \in LocE(RegistryAccts) :
       now = StartTime /\ BurstOk(s) /\ UpdateLocation(s, d)
  \/ TimerTick

SpecLive == Init /\ [][NextLive]_vars /\ WF_vars(TimerTick)

disconnectOldSocketDeferred(S, oldSocketId) ==
  IF oldSocketId = NoSock \/ ~Connected(S, oldSocketId) THEN S
  ELSE dropOldSession(
         Emit(S, "connectionReplaced", oldSocketId, NoAcct, Undef, Undef, Undef, Undef),
         oldSocketId)

takeOverAccountDeferred(S, s, accountId) ==
  IF accountId = NoAcct THEN S
  ELSE bindAccount(
         IF Get(S.a2s, accountId) # NoSock /\ Get(S.a2s, accountId) # s
         THEN disconnectOldSocketDeferred(S, Get(S.a2s, accountId)) ELSE S,
         s, accountId)

registerRoleDeferred(S, s, r, accountId) ==
  IF r \notin {"user", "driver"} THEN S
  ELSE IF r = "user" /\ accountId = NoAcct THEN EmitError(S, s)
  ELSE admitUser(
         restoreDriver(
           assignSession(takeOverAccountDeferred(S, s, accountId), s, r, accountId),
           s, r, accountId),
         s, r, accountId)

closeKeyHolderDeferred(S, s, sessionKey) ==
  IF Get(S.k2s, sessionKey) # NoSock /\ Get(S.k2s, sessionKey) # s
  THEN disconnectOldSocketDeferred(S, Get(S.k2s, sessionKey)) ELSE S

resumeOfDeferred(S, s, sessionKey, existingSession) ==
  readmitUser(
    restoreDriver(
      joinRole(
        takeOverAccountDeferred(
          rebindSession(closeKeyHolderDeferred(S, s, sessionKey),
                        s, sessionKey, existingSession),
          s, existingSession.accountId),
        s, existingSession.role),
      s, existingSession.role, existingSession.accountId),
    s, existingSession.role, existingSession.accountId)

resumeSessionDeferred(S, s, sessionKey) ==
  IF sessionKey = NoSock THEN EmitError(S, s)
  ELSE IF sessionKey \notin DOMAIN S.sessions THEN EmitError(S, s)
  ELSE resumeOfDeferred(S, s, sessionKey, S.sessions[sessionKey])

rebindDriverDeferred(S, s, accountId) ==
  IF accountId \notin DOMAIN S.drivers THEN S
  ELSE LET prev == S.drivers[accountId]
       IN IF prev.disconnected
          THEN [S EXCEPT !.drivers[accountId].disconnected = FALSE,
                         !.drivers[accountId].disconnectedAt = Undef,
                         !.drivers[accountId].reconnectAttempts = @ + 1,
                         !.s2a = IF prev.socketId # NoSock /\ prev.socketId # s
                                 THEN Del(@, prev.socketId) ELSE @]
          ELSE IF prev.socketId # NoSock /\ prev.socketId # s
          THEN dropReboundSocket(disconnectOldSocketDeferred(S, prev.socketId), accountId)
          ELSE S

updateLocationDeferred(S, s, d) ==
  IF ~validateLocationData(d) THEN EmitError(S, s)
  ELSE IF ~checkRateLimit(S, s)[1]
  THEN EmitError([S EXCEPT !.rate = checkRateLimit(S, s)[2]], s)
  ELSE mergeLocation(
         rebindDriverDeferred([S EXCEPT !.rate = checkRateLimit(S, s)[2]], s, d.accountId),
         s, d)

\* the connections the handler has told they are replaced
ReplacedIn(S) ==
  UNION {S.out[i].to : i \in {j \in 1..Len(S.out) : S.out[j].ev = "connectionReplaced"}}

RECURSIVE closeEach(_, _)
closeEach(S, ss) ==
  IF ss = <<>> THEN S
  ELSE closeEach(IF Connected(S, Head(ss)) THEN OnDisconnect(S, Head(ss)) ELSE S, Tail(ss))

\* the transports drain and the "disconnect" listeners of the replaced run
closeReplaced(S) == closeEach(S, Ascending(ReplacedIn(S)))

RegisterRoleDeferred(s, r, a) ==
  /\ conn[s] = "open"
  /\ nextKey <= MaxKeys
  /\ Handled(closeReplaced(registerRoleDeferred(State, s, r, a)))

ResumeSessionDeferred(s, k) ==
  /\ conn[s] = "open"
  /\ k < nextKey
  /\ Handled(closeReplaced(resumeSessionDeferred(State, s, k)))

UpdateLocationDeferred(s, d) ==
  /\ conn[s] = "open"
  /\ Handled(closeReplaced(updateLocationDeferred(State, s, d)))

MaxOrderKeys == 3      \* registrations in a run of SpecOrder

NextOrder ==
  \/ Connect
  \/ \E s \in Sock : Disconnect(s)
  \/ \E s \in Sock, r \in {"user", "driver"}, a \in RegistryAccts :
       nextKey <= MaxOrderKeys /\ RegisterRole(s, r, a)
  \/ \E s \in Sock, r \in {"user", "driver"}, a \in RegistryAccts :
       nextKey <= MaxOrderKeys /\ RegisterRoleDeferred(s, r, a)
  \/ \E s \in Sock, k \in 1..MaxOrderKeys : ResumeSession(s, k)
  \/ \E s \in Sock, k \in 1..MaxOrderKeys : ResumeSessionDeferred(s, k)
  \/ \E s \in Sock, d \in LocE(RegistryAccts) : BurstOk(s) /\ UpdateLocation(s, d)
  \/ \E s \in Sock, d \in LocE(RegistryAccts) : BurstOk(s) /\ UpdateLocationDeferred(s, d)

SpecOrder == Init /\ [][NextOrder]_vars

\* ------------------------------------------------------------ C40
\* the record of account a that the handler accepted on s is bound to s
BoundToNew(ev, s, a) ==
  /\ Get(accountIdToSocketId, a) = s
  /\ (ev = "updateLocation" \/ role[s] = "driver") /\ a \in DOMAIN drivers
       => drivers[a].socketId = s /\ ~drivers[a].disconnected
  /\ ev # "updateLocation" /\ role[s] = "user" /\ a \in DOMAIN users
       => users[a].socketId = s /\ ~users[a].disconnected

\* C40: after a handler that replaced an incumbent connection, and the
\* incumbent's disconnect listener, have both run in either order, the account's
\* record is bound to the new connection, not marked disconnected, and
\* accountIdToSocketId names the new connection.
C40_PreemptionLeavesRecordBound ==
  Replaced # {} /\ accepted # None /\ accepted[3] # NoAcct
    => BoundToNew(accepted[1], accepted[2], accepted[3])

\* a driver update on a new connection has replaced the open incumbent
C40_Witness ==
  /\ Replaced # {} /\ accepted # None /\ accepted[1] = "updateLocation"
  /\ accepted[3] \in DOMAIN drivers
  /\ drivers[accepted[3]].socketId = accepted[2]
  /\ \A o \in Replaced : conn[o] = "closed"

====
